---- MODULE Spec2Model ----
(***************************************************************************)
(* Training controller, network model and frame loop of the neural-network *)
(* visualizer (chrisjm/neural-network-demo).                               *)
(*                                                                         *)
(* Floating-point quantities are carried as integers:                      *)
(*   - loss in units of 0.01 (autoTargetLoss 0.01 is 1), accuracy as 0/1,  *)
(*   - the learning rate in hundredths (0.1 is 10), momentum and the Adam  *)
(*     betas in tenths (0.9 is 9), parameters, gradients and optimizer     *)
(*     state in fixed point.                                               *)
(* The loss, accuracy and gradient that trainBatch computes from the data  *)
(* are an input of the step, drawn from BatchOutcomes.                     *)
(*                                                                         *)
(* The repository holds several revisions of the program; `variant` names  *)
(* the revision a behaviour belongs to and never changes:                  *)
(*   "App"    the monolithic render loop with inline training,             *)
(*   "Steps"  Trainer::stepOnce/stepAuto driven by updateAndRenderFrame,   *)
(*   "Wasm"   Trainer::trainOneEpoch/autoTrainEpochs driven through the    *)
(*            nn_* C API of the WebAssembly build,                         *)
(*   "Resizable"  ToyNet with hidden widths set at run time,               *)
(*   "Bounded"    Trainer with history arrays of HistorySize entries.      *)
(*                                                                         *)
(* The specifications share the state and the operators:                   *)
(*   Spec              the frame loop with the training controls,          *)
(*   SpecOptimizer     the optimizer and init-mode controls,               *)
(*   SpecLearningRate  the learning-rate slider and setter,                *)
(*   SpecApi           the setters of the C API,                           *)
(*   SpecDirect        direct calls of makeBatch, stepOnce, trainBatch     *)
(*                     and forwardSingle,                                  *)
(*   SpecSized         the resizable network,                              *)
(*   SpecBounded       the trainer with bounded history,                   *)
(*   SpecInference     forwardSingle against the field shader,             *)
(*   SpecTicks         auto-training ticks, FairSpecTicks with the render  *)
(*                     loop's fairness.                                    *)
(***************************************************************************)
EXTENDS Integers, Sequences, FiniteSets, TLC

\* ------------------------------------------------------------------ bounds
\* ToyNet::MaxBatch is 256 in the source; scaled down.
MaxBatch == 3
\* nn_set_dataset / the regenerate block clamp numPoints to [10, maxPoints];
\* scaled down to [MinPoints, MaxPoints].
MinPoints == 2
MaxPoints == 3
\* Cap on the step/epoch counter between two resets.
MaxSteps == 2
\* Cap on the number of configuration changes (UI edits, nn_set_* calls).
MaxConfigChanges == 1
\* Changes of the optimizer kind and of its hyperparameters explored per
\* behaviour.
MaxOptimizerChanges == 2

\* ToyNet::Hidden1 and ToyNet::Hidden2 are 4 and 8 in the source; scaled down.
Hidden1 == 1
Hidden2 == 2

\* ------------------------------------------------------- program constants
InputDim == 2
OutputDim == 2
\* Denominator of the fixed-point hyperparameters (tenths).
Den == 10

Variants == {"App", "Steps", "Wasm"}
OptimizerTypes == {"SGD", "SGDMomentum", "Adam"}
InitModes == {"Zero", "HeUniform", "HeNormal"}
ParamNames == {"W1", "b1", "W2", "b2", "W3", "b3"}

\* What trainBatch computes from a non-empty batch: the averaged loss, the
\* accuracy and the (here uniform) averaged gradient.
BatchOutcomes ==
    { [loss |-> 2, acc |-> 0, grad |-> 10],
      [loss |-> 0, acc |-> 1, grad |-> -10] }

\* Values the UI / the C API may hand to the setters.
RequestedPoints == {MinPoints - 1, MinPoints, MaxPoints, MaxPoints + 1}
RequestedBatch == {0, 1, MaxBatch, MaxBatch + 1}
RequestedAutoMax == {-1, 0, 1, 2}
RequestedTargetLoss == {-1, 0, 1}
\* Values of the public field Trainer::batchSize (the argument of the
\* makeBatch lambda) a direct caller may leave: negative, zero, inside and
\* above MaxBatch.
DirectBatchSizes == {-1, 0, 1, MaxBatch, MaxBatch + 1}
\* Batches a direct caller passes to trainBatch: empty, one and two samples.
DirectBatches == {<< >>, << 0 >>, << 0, 0 >>}
\* Probe coordinates passed to forwardSingle.
ProbeCoords == {-1, 1}
\* DatasetTypeCount of DatasetGenerator.h.
DatasetTypeCount == 5
\* nn_set_dataset datasetIndex arguments: below, inside and above the
\* dataset types.
RequestedDatasetIndex == {-1, 0, DatasetTypeCount - 1, DatasetTypeCount}
\* nn_set_adam_beta1 / nn_set_adam_beta2 arguments in tenths.
RequestedBeta == {-1, 5, Den}
\* nn_set_adam_eps arguments.
RequestedEps == {-1, 0, 1}
\* Positions of the "Learning Rate" slider, in hundredths.
SliderLearningRates == {10, 20}
\* nn_set_learning_rate arguments in hundredths: negative, zero, positive.
RequestedLearningRate == {-10, 0, 10, 20}
\* The 1e-6 that nn_set_learning_rate stores for an argument <= 0, as the
\* smallest positive learning rate of the fixed-point scale.
TinyLearningRate == 1
\* nn_set_momentum arguments in tenths: below 0, 0, inside and above 0.99.
RequestedMomentum == {-1, 0, 5, Den}

Min(a, b) == IF a < b THEN a ELSE b
Max(a, b) == IF a > b THEN a ELSE b

\* ------------------------------------------------------------ network model
ArrayLen(k) ==
    CASE k = "W1" -> Hidden1 * InputDim
      [] k = "b1" -> Hidden1
      [] k = "W2" -> Hidden2 * Hidden1
      [] k = "b2" -> Hidden2
      [] k = "W3" -> OutputDim * Hidden2
      [] k = "b3" -> OutputDim

ZeroArrays == [k \in ParamNames |-> [i \in 1..ArrayLen(k) |-> 0]]

\* std::srand(seed) with the default seed 1 followed by rand(): the same
\* sequence of draws on every reset.  randUniform() in [-1,1] times the layer
\* scale is carried as a small integer.
randUniform(n) == ((n * 7) % 5) - 2

\* Position of an array's first draw: W1, W2, W3 are filled in this order.
RandOffset(k) ==
    CASE k = "W1" -> 0
      [] k = "W2" -> Hidden1 * InputDim
      [] k = "W3" -> Hidden1 * InputDim + Hidden2 * Hidden1
      [] OTHER -> 0

IsBias(k) == k \in {"b1", "b2", "b3"}

\* The weight arrays after resetParameters under an init mode; biases are 0.
InitialParameters(mode) ==
    [k \in ParamNames |->
        [i \in 1..ArrayLen(k) |->
            IF IsBias(k) \/ mode = "Zero" THEN 0
            ELSE IF mode = "HeUniform" THEN randUniform(RandOffset(k) + i)
            ELSE randUniform(RandOffset(k) + i) + randUniform(RandOffset(k) + i + 1)]]

\* ------------------------------------------------------ optimizer state engine
\* Division of fixed-point values, rounding toward zero.
Div(a, b) == IF a >= 0 THEN a \div b ELSE -((-a) \div b)

RECURSIVE Pow(_, _)
Pow(b, t) == IF t = 0 THEN 1 ELSE b * Pow(b, t - 1)

RECURSIVE ISqrtFrom(_, _)
ISqrtFrom(n, r) == IF (r + 1) * (r + 1) > n THEN r ELSE ISqrtFrom(n, r + 1)
\* std::sqrt on a non-negative fixed-point value.
ISqrt(n) == ISqrtFrom(n, 0)

\* Faulty variant of optimizerResetState, rejected by C10: the moment arrays
\* are zeroed but the Adam step counter is kept.
optimizerResetStateKeepsStep(m, v, adamStep) ==
    [ m |-> [k \in DOMAIN m |-> [i \in DOMAIN m[k] |-> 0]],
      v |-> [k \in DOMAIN v |-> [i \in DOMAIN v[k] |-> 0]],
      adamStep |-> adamStep ]

\* Optimizer.cpp: std::fill(..., 0.0f) on the twelve state arrays and
\* adamStep = 0.  The arrays keep their lengths.
optimizerResetState(m, v, adamStep) ==
    [ m |-> [k \in DOMAIN m |-> [i \in DOMAIN m[k] |-> 0]],
      v |-> [k \in DOMAIN v |-> [i \in DOMAIN v[k] |-> 0]],
      adamStep |-> 0 ]

\* Optimizer.cpp, Adam branch: biasCorr = 1 - beta^t, as the numerator of a
\* fraction over Pow(Den, t).
BiasCorr(beta, t) == Pow(Den, t) - Pow(beta, t)

\* Optimizer.cpp, Adam branch: m = beta1 * m + (1 - beta1) * g.
AdamFirstMoment(cfg, m, G) ==
    [k \in DOMAIN m |-> [i \in DOMAIN m[k] |->
        Div(cfg.beta1 * m[k][i] + (Den - cfg.beta1) * G[k][i], Den)]]

\* Optimizer.cpp, Adam branch: v = beta2 * v + (1 - beta2) * g * g.
AdamSecondMoment(cfg, v, G) ==
    [k \in DOMAIN v |-> [i \in DOMAIN v[k] |->
        Div(cfg.beta2 * v[k][i] + (Den - cfg.beta2) * G[k][i] * G[k][i], Den)]]

\* Optimizer.cpp, Adam branch: lr * mHat / (sqrt(vHat) + eps) for one
\* parameter with moments mk and vk at step t.
AdamStepSize(cfg, mk, vk, t) ==
    Div(cfg.learningRate * Div(mk * Pow(Den, t), BiasCorr(cfg.beta1, t)),
        ISqrt(Div(vk * Pow(Den, t), BiasCorr(cfg.beta2, t))) + cfg.eps)

\* Optimizer.cpp, Adam branch: the parameter update from the new moments.
AdamUpdate(cfg, P, m2, v2, t) ==
    [ P |-> [k \in DOMAIN P |-> [i \in DOMAIN P[k] |->
                P[k][i] - AdamStepSize(cfg, m2[k][i], v2[k][i], t)]],
      m |-> m2, v |-> v2, adamStep |-> t ]

\* Faulty variant of MomentumVelocity, rejected by C15: the old velocity is
\* carried over whole, whatever the momentum coefficient.
MomentumVelocityUndamped(cfg, m, G) ==
    [k \in DOMAIN m |-> [i \in DOMAIN m[k] |->
        m[k][i] - cfg.learningRate * G[k][i]]]

\* Optimizer.cpp, SGDMomentum branch: v = momentum * v - lr * g, kept in the
\* m arrays.
MomentumVelocity(cfg, m, G) ==
    [k \in DOMAIN m |-> [i \in DOMAIN m[k] |->
        Div(cfg.momentum * m[k][i], Den) - cfg.learningRate * G[k][i]]]

\* Optimizer.cpp, SGDMomentum branch: w += v.
MomentumUpdate(P, vel, v, adamStep) ==
    [ P |-> [k \in DOMAIN P |-> [i \in DOMAIN P[k] |-> P[k][i] + vel[k][i]]],
      m |-> vel, v |-> v, adamStep |-> adamStep ]

\* Faulty variant of optimizerApplyUpdate, rejected by C11: the Adam branch
\* advances the step counter once per parameter array instead of once per
\* call.
optimizerApplyUpdatePerArray(cfg, P, G, m, v, adamStep) ==
    CASE cfg.type = "SGD" ->
           [ P |-> [k \in DOMAIN P |-> [i \in DOMAIN P[k] |->
                        P[k][i] - cfg.learningRate * G[k][i]]],
             m |-> m, v |-> v, adamStep |-> adamStep ]
      [] cfg.type = "SGDMomentum" ->
           MomentumUpdate(P, MomentumVelocity(cfg, m, G), v, adamStep)
      [] cfg.type = "Adam" ->
           AdamUpdate(cfg, P, AdamFirstMoment(cfg, m, G),
                      AdamSecondMoment(cfg, v, G),
                      adamStep + Cardinality(DOMAIN P))

\* Optimizer.cpp: one update of the six parameter arrays P from the averaged
\* gradients G under cfg = [type, learningRate, momentum, beta1, beta2, eps].
\* Adam increments adamStep once per call, before the bias correction.
optimizerApplyUpdate(cfg, P, G, m, v, adamStep) ==
    CASE cfg.type = "SGD" ->
           [ P |-> [k \in DOMAIN P |-> [i \in DOMAIN P[k] |->
                        P[k][i] - cfg.learningRate * G[k][i]]],
             m |-> m, v |-> v, adamStep |-> adamStep ]
      [] cfg.type = "SGDMomentum" ->
           MomentumUpdate(P, MomentumVelocity(cfg, m, G), v, adamStep)
      [] cfg.type = "Adam" ->
           AdamUpdate(cfg, P, AdamFirstMoment(cfg, m, G),
                      AdamSecondMoment(cfg, v, G), adamStep + 1)

VARIABLES
    variant,            \* revision of the program this behaviour runs
    pc,                 \* position inside the current frame, "idle" between frames
    stepTrainRequested, \* frame-local request flag set by drawControlPanel
    dataset,            \* [size, index]: the number of samples of the current
                        \* dataset and ui.datasetIndex
    justReset,          \* what the last step reset, and from which state
    trainer,            \* the Trainer struct (the ui* locals of the "App" loop)
    net,                \* ToyNet: [P, m, v, adamStep, learningRate]
    uniforms,           \* u_W1 .. u_b3 of the field shader
    fieldDirty,         \* FieldVisualizer dirty flag
    trainCalls,         \* number of trainBatch calls made in the current frame
    drawn,              \* dataset indices read since the dataset was replaced
                        \* or the trainer reset
    cfgChanges,         \* number of configuration changes made so far
    auxWriter,          \* optimizer kind whose update last wrote the
                        \* velocity / first-moment arrays, "none" after a
                        \* reset
    call                \* the member function the last step called directly,
                        \* with its arguments, its result and the state it
                        \* was called in; [op |-> "none"] in the frame loop

vars == << variant, pc, stepTrainRequested, dataset, justReset, trainer, net,
           uniforms, fieldDirty, trainCalls, drawn, cfgChanges, auxWriter,
           call >>

\* ToyNet::ToyNet / ToyNet::resetParameters of the fixed-topology network
\* (plain SGD, He-uniform init, no optimizer state).
resetParametersFixed(N) ==
    [N EXCEPT !.P = InitialParameters("HeUniform")]

\* ToyNet::resetParameters of the network with selectable init mode and
\* optimizer: re-draws the weights, zeroes the biases and resets the
\* optimizer state buffers.
resetParametersOpt(N, mode) ==
    LET r == optimizerResetState(N.m, N.v, N.adamStep)
    IN  [N EXCEPT !.P = InitialParameters(mode),
                  !.m = r.m, !.v = r.v, !.adamStep = r.adamStep]

resetParameters(N, mode) ==
    IF variant = "App" THEN resetParametersFixed(N)
    ELSE resetParametersOpt(N, mode)

\* Averaged gradient buffers dW1 .. db3 of one batch.
Gradients(o) == [k \in ParamNames |-> [i \in 1..ArrayLen(k) |-> o.grad]]

\* Faulty variant of trainBatchFixed, rejected by C19: no guard for the
\* empty batch, so the update runs and the outcome is reported.
trainBatchFixedUnguarded(N, batch, lr, o) ==
    [n |-> [N EXCEPT !.P = [k \in ParamNames |-> [i \in 1..ArrayLen(k) |->
                                N.P[k][i] - lr * Gradients(o)[k][i]]]],
     loss |-> o.loss, acc |-> o.acc]

\* ToyNet::trainBatch of the fixed-topology network: an empty batch returns
\* loss 0 / accuracy 0 and touches nothing; at most MaxBatch samples are
\* used; the update is plain gradient descent.
trainBatchFixed(N, batch, lr, o) ==
    IF Len(batch) <= 0
    THEN [n |-> N, loss |-> 0, acc |-> 0]
    ELSE [n |-> [N EXCEPT !.P = [k \in ParamNames |-> [i \in 1..ArrayLen(k) |->
                                    N.P[k][i] - lr * Gradients(o)[k][i]]]],
          loss |-> o.loss, acc |-> o.acc]

\* ToyNet::trainBatch of the network with optimizers: the same guard, then
\* one optimizerApplyUpdate call with the configured optimizer.
trainBatchOpt(N, batch, cfg, o) ==
    IF Len(batch) <= 0
    THEN [n |-> N, loss |-> 0, acc |-> 0]
    ELSE LET u == optimizerApplyUpdate(cfg, N.P, Gradients(o), N.m, N.v, N.adamStep)
         IN  [n |-> [N EXCEPT !.P = u.P, !.m = u.m, !.v = u.v,
                              !.adamStep = u.adamStep],
              loss |-> o.loss, acc |-> o.acc]

\* The optimizer configuration stepOnce pushes into the network.
OptimizerConfig(T) ==
    [ type |-> T.optimizerType, learningRate |-> T.learningRate,
      momentum |-> T.momentum, beta1 |-> T.adamBeta1,
      beta2 |-> T.adamBeta2, eps |-> T.adamEps ]

trainBatch(N, batch, T, o) ==
    IF variant = "App" THEN trainBatchFixed(N, batch, N.learningRate, o)
    ELSE trainBatchOpt(N, batch, OptimizerConfig(T), o)

\* ------------------------------------------------------ single-sample forward
relu(x) == IF x > 0 THEN x ELSE 0

\* sum over i < n of W[idx(j, i, n)] * a[i], with base = j * n.
RECURSIVE Dot(_, _, _, _)
Dot(W, base, a, n) ==
    IF n = 0 THEN 0 ELSE W[base + n] * a[n] + Dot(W, base, a, n - 1)

\* The activations of the two hidden layers and the logits of the output
\* layer for the input (x, y).
HiddenA1(N, x, y) ==
    [j \in 1..Hidden1 |->
        relu(N.P["b1"][j] + Dot(N.P["W1"], (j - 1) * InputDim, << x, y >>, InputDim))]

HiddenA2(N, x, y) ==
    [j \in 1..Hidden2 |->
        relu(N.P["b2"][j] + Dot(N.P["W2"], (j - 1) * Hidden1, HiddenA1(N, x, y), Hidden1))]

Logits(N, x, y) ==
    [k \in 1..OutputDim |->
        N.P["b3"][k] + Dot(N.P["W3"], (k - 1) * Hidden2, HiddenA2(N, x, y), Hidden2)]

\* Faulty variant of forwardSingleWithActivations, rejected by C20: the
\* forward pass advances the optimizer's step counter.
forwardSingleWithActivationsCounting(N, x, y) ==
    [ n |-> [N EXCEPT !.adamStep = @ + 1],
      a1 |-> HiddenA1(N, x, y), a2 |-> HiddenA2(N, x, y),
      predicted |-> IF Logits(N, x, y)[2] > Logits(N, x, y)[1] THEN 1 ELSE 0 ]

\* ToyNet::forwardSingleWithActivations, a const member: the activations go
\* to local arrays and to the caller's buffers, the probabilities to the
\* caller's p0 / p1 (kept here as the class the softmax favours); n is the
\* network after the call.
forwardSingleWithActivations(N, x, y) ==
    [ n |-> N,
      a1 |-> HiddenA1(N, x, y), a2 |-> HiddenA2(N, x, y),
      predicted |-> IF Logits(N, x, y)[2] > Logits(N, x, y)[1] THEN 1 ELSE 0 ]

\* ToyNet::forwardSingle: forwardSingleWithActivations into two local arrays.
forwardSingle(N, x, y) ==
    [ n |-> forwardSingleWithActivations(N, x, y).n,
      predicted |-> forwardSingleWithActivations(N, x, y).predicted ]

\* ------------------------------------------------------- training controller
\* The loop of makeBatch: push dataset[cursor], advance the cursor cyclically.
RECURSIVE DrawSamples(_, _, _, _)
DrawSamples(batch, cursor, dataCount, todo) ==
    IF todo <= 0 THEN [batch |-> batch, cursor |-> cursor]
    ELSE DrawSamples(Append(batch, cursor), (cursor + 1) % dataCount,
                     dataCount, todo - 1)

\* Faulty variant of makeBatch, rejected by C4: every batch starts at
\* dataset index 0 instead of the cursor.
makeBatchFromZero(T, dataCount) ==
    IF dataCount = 0 THEN [batch |-> << >>, cursor |-> T.m_dataCursor]
    ELSE DrawSamples(<< >>, 0, dataCount, Min(Max(T.batchSize, 1), MaxBatch))

\* Trainer::makeBatch: clears the batch, returns on an empty dataset, clamps
\* batchSize to [1, MaxBatch] and draws that many samples.
makeBatch(T, dataCount) ==
    IF dataCount = 0 THEN [batch |-> << >>, cursor |-> T.m_dataCursor]
    ELSE LET size == Min(Max(T.batchSize, 1), MaxBatch)
         IN  DrawSamples(<< >>, T.m_dataCursor, dataCount, size)

\* The makeBatch lambda of the monolithic render loop: only the upper clamp.
makeBatchLambda(T, dataCount) ==
    IF dataCount = 0 THEN [batch |-> << >>, cursor |-> T.m_dataCursor]
    ELSE DrawSamples(<< >>, T.m_dataCursor, dataCount, Min(T.batchSize, MaxBatch))

\* Faulty variant of resetForNewDataset, rejected by C1: the auto-train flag
\* and the history survive the reset.
resetForNewDatasetKeepsAutoTrain(T, N) ==
    [ t |-> [T EXCEPT !.stepCount = 0, !.lastLoss = 0, !.lastAccuracy = 0,
                      !.m_dataCursor = 0],
      n |-> resetParameters(N, T.initMode) ]

\* Trainer::resetForNewDataset.
resetForNewDataset(T, N) ==
    [ t |-> [T EXCEPT !.stepCount = 0, !.lastLoss = 0, !.lastAccuracy = 0,
                      !.autoTrain = FALSE, !.m_dataCursor = 0,
                      !.historyCount = 0,
                      !.lossHistory = << >>, !.accuracyHistory = << >>],
      n |-> resetParameters(N, T.initMode) ]

\* Faulty variant of stepOnce, rejected by C18: no guard for the empty
\* dataset, so the step is counted and recorded.
stepOnceUnguarded(T, N, dataCount, o) ==
    LET b == makeBatch(T, dataCount)
        r == trainBatch([N EXCEPT !.learningRate = T.learningRate],
                        b.batch, T, o)
        lossH == Append(T.lossHistory, r.loss)
    IN  [ t |-> [T EXCEPT !.m_batch = b.batch, !.m_dataCursor = b.cursor,
                          !.lastLoss = r.loss, !.lastAccuracy = r.acc,
                          !.stepCount = T.stepCount + 1,
                          !.lossHistory = lossH,
                          !.accuracyHistory = Append(T.accuracyHistory, r.acc),
                          !.historyCount = Len(lossH)],
          n |-> r.n, trained |-> 1 ]

\* Faulty variant of stepOnce, rejected by C24: the step is counted and its
\* loss recorded, but no accuracy entry is pushed.
stepOnceDropsAccuracy(T, N, dataCount, o) ==
    IF dataCount = 0 THEN [t |-> T, n |-> N, trained |-> 0]
    ELSE LET b == makeBatch(T, dataCount)
             r == trainBatch([N EXCEPT !.learningRate = T.learningRate],
                             b.batch, T, o)
             lossH == Append(T.lossHistory, r.loss)
         IN  [ t |-> [T EXCEPT !.m_batch = b.batch, !.m_dataCursor = b.cursor,
                               !.lastLoss = r.loss, !.lastAccuracy = r.acc,
                               !.stepCount = T.stepCount + 1,
                               !.lossHistory = lossH,
                               !.historyCount = Len(lossH)],
               n |-> r.n, trained |-> 1 ]

\* Trainer::stepOnce / Trainer::trainOneEpoch.
stepOnce(T, N, dataCount, o) ==
    IF dataCount = 0 THEN [t |-> T, n |-> N, trained |-> 0]
    ELSE LET b == makeBatch(T, dataCount)
             r == trainBatch([N EXCEPT !.learningRate = T.learningRate],
                             b.batch, T, o)
             lossH == Append(T.lossHistory, r.loss)
         IN  [ t |-> [T EXCEPT !.m_batch = b.batch, !.m_dataCursor = b.cursor,
                               !.lastLoss = r.loss, !.lastAccuracy = r.acc,
                               !.stepCount = T.stepCount + 1,
                               !.lossHistory = lossH,
                               !.accuracyHistory = Append(T.accuracyHistory, r.acc),
                               !.historyCount = Len(lossH)],
               n |-> r.n, trained |-> 1 ]

\* Faulty variant of stepAuto, rejected by C5: auto-train is cleared only
\* when both stopping conditions hold.
stepAutoBothConditions(T, N, dataCount, o) ==
    IF ~T.autoTrain THEN [t |-> T, n |-> N, trained |-> 0, ret |-> FALSE]
    ELSE LET s == stepOnce(T, N, dataCount, o)
             stop == s.t.stepCount >= s.t.autoMaxSteps
                        /\ s.t.lastLoss <= s.t.autoTargetLoss
         IN  [ t |-> [s.t EXCEPT !.autoTrain = IF stop THEN FALSE ELSE @],
               n |-> s.n, trained |-> s.trained, ret |-> TRUE ]

\* Faulty variant of stepAuto, rejected by C29: the step bound stops
\* auto-training only once the counter has passed it.
stepAutoStrictBound(T, N, dataCount, o) ==
    IF ~T.autoTrain THEN [t |-> T, n |-> N, trained |-> 0, ret |-> FALSE]
    ELSE LET s == stepOnce(T, N, dataCount, o)
             stop == s.t.stepCount > s.t.autoMaxSteps
                        \/ s.t.lastLoss <= s.t.autoTargetLoss
         IN  [ t |-> [s.t EXCEPT !.autoTrain = IF stop THEN FALSE ELSE @],
               n |-> s.n, trained |-> s.trained, ret |-> TRUE ]

\* Trainer::stepAuto of the revision with autoMaxSteps: both stopping
\* conditions are always evaluated.
stepAuto(T, N, dataCount, o) ==
    IF ~T.autoTrain THEN [t |-> T, n |-> N, trained |-> 0, ret |-> FALSE]
    ELSE LET s == stepOnce(T, N, dataCount, o)
             stop == s.t.stepCount >= s.t.autoMaxSteps
                        \/ s.t.lastLoss <= s.t.autoTargetLoss
         IN  [ t |-> [s.t EXCEPT !.autoTrain = IF stop THEN FALSE ELSE @],
               n |-> s.n, trained |-> s.trained, ret |-> TRUE ]

\* Faulty variant of autoTrainEpochs, rejected by C8: one call trains two
\* epochs.
autoTrainEpochsTwice(T, N, dataCount, o) ==
    IF ~T.autoTrain THEN [t |-> T, n |-> N, trained |-> 0, ret |-> FALSE]
    ELSE LET s1 == stepOnce(T, N, dataCount, o)
             s == stepOnce(s1.t, s1.n, dataCount, o)
             stop == s.t.stepCount >= s.t.autoMaxSteps
                        \/ s.t.lastLoss <= s.t.autoTargetLoss
         IN  [ t |-> [s.t EXCEPT !.autoTrain = IF stop THEN FALSE ELSE @],
               n |-> s.n, trained |-> s1.trained + s.trained, ret |-> TRUE ]

\* Trainer::autoTrainEpochs of the revision with autoMaxEpochs (the epoch
\* counter and bound are carried in stepCount and autoMaxSteps).
autoTrainEpochs(T, N, dataCount, o) ==
    IF ~T.autoTrain THEN [t |-> T, n |-> N, trained |-> 0, ret |-> FALSE]
    ELSE LET s == stepOnce(T, N, dataCount, o)
             stop == s.t.stepCount >= s.t.autoMaxSteps
                        \/ s.t.lastLoss <= s.t.autoTargetLoss
         IN  [ t |-> [s.t EXCEPT !.autoTrain = IF stop THEN FALSE ELSE @],
               n |-> s.n, trained |-> s.trained, ret |-> TRUE ]

AutoStep(T, N, dataCount, o) ==
    IF variant = "Wasm" THEN autoTrainEpochs(T, N, dataCount, o)
    ELSE stepAuto(T, N, dataCount, o)

\* The Step Train button of the monolithic render loop: makeBatch,
\* trainBatch, ++uiStepCount.  trainBatch reads net.learningRate, which the
\* loop assigns from the slider value only after the control window.
loopStepTrain(T, N, dataCount, o) ==
    LET b == makeBatchLambda(T, dataCount)
        r == trainBatchFixed(N, b.batch, N.learningRate, o)
    IN  [ t |-> [T EXCEPT !.m_batch = b.batch, !.m_dataCursor = b.cursor,
                          !.lastLoss = r.loss, !.lastAccuracy = r.acc,
                          !.stepCount = T.stepCount + 1],
          n |-> r.n, trained |-> 1 ]

\* The auto-train block of the monolithic render loop.
loopAutoTrain(T, N, dataCount, o) ==
    LET s == loopStepTrain(T, N, dataCount, o)
        stop == s.t.stepCount >= s.t.autoMaxSteps
                   \/ s.t.lastLoss <= s.t.autoTargetLoss
    IN  [ t |-> [s.t EXCEPT !.autoTrain = IF stop THEN FALSE ELSE @],
          n |-> s.n, trained |-> s.trained, ret |-> TRUE ]

\* The regenerate block of the monolithic render loop: new parameters,
\* zeroed counters and auto-train off.
loopRegenerateReset(T, N) ==
    [ t |-> [T EXCEPT !.stepCount = 0, !.lastLoss = 0, !.lastAccuracy = 0,
                      !.autoTrain = FALSE],
      n |-> resetParametersFixed(N) ]

\* numPoints clamped as the regenerate block and nn_set_dataset clamp it.
ClampPoints(np) == IF np < MinPoints THEN MinPoints
                   ELSE IF np > MaxPoints THEN MaxPoints ELSE np

\* generateDataset: a switch over the five dataset types whose cases each
\* replace the dataset by numPoints fresh samples; it has no default case,
\* so any other type value leaves the old dataset in place.  index is
\* ui.datasetIndex, the type value the caller stored.
generateDataset(index, np, old) ==
    IF index \in 0..(DatasetTypeCount - 1)
    THEN [size |-> np, index |-> index]
    ELSE [size |-> old.size, index |-> index]

\* Faulty variant of UploadUniforms, rejected by C9: u_b3 is not uploaded
\* and keeps the value of an earlier frame.
UploadUniformsWithoutB3(P) ==
    [k \in ParamNames |-> IF k = "b3" THEN uniforms[k] ELSE P[k]]

\* The six setFloatArray calls of a frame.
UploadUniforms(P) == [k \in ParamNames |-> P[k]]

\* All optimizer state of a network is zero.
AuxZero(N) == N.m = ZeroArrays /\ N.v = ZeroArrays /\ N.adamStep = 0

\* History of the last step: which kind of reset it made, if any, and the
\* trainer and optimizer state the reset started from.
NoReset == [kind |-> "none", stepCount |-> 0, autoTrain |-> FALSE,
            historyCount |-> 0, auxDirty |-> FALSE]
ResetFrom(kind, T, N) ==
    [kind |-> kind, stepCount |-> T.stepCount, autoTrain |-> T.autoTrain,
     historyCount |-> T.historyCount, auxDirty |-> ~AuxZero(N)]

\* No member function was called directly by the last step.
NoCall == [op |-> "none"]

\* --------------------------------------------------------------------- Init
InitTrainer ==
    [ learningRate |-> 10, batchSize |-> Min(2, MaxBatch), autoTrain |-> FALSE,
      autoMaxSteps |-> 2, autoTargetLoss |-> 1, useTargetLossStop |-> TRUE,
      optimizerType |-> "SGD", momentum |-> 9, adamBeta1 |-> 9,
      adamBeta2 |-> 9, adamEps |-> 0, initMode |-> "HeUniform",
      stepCount |-> 0, lastLoss |-> 0, lastAccuracy |-> 0,
      lossHistory |-> << >>, accuracyHistory |-> << >>, historyCount |-> 0,
      m_batch |-> << >>, m_dataCursor |-> 0 ]

Init ==
    /\ variant \in Variants
    /\ pc = "idle"
    /\ stepTrainRequested = FALSE
    /\ dataset = generateDataset(0, MaxPoints, [size |-> 0, index |-> 0])
    /\ justReset = NoReset
    /\ trainer = InitTrainer
    /\ net = resetParameters([P |-> ZeroArrays, m |-> ZeroArrays,
                              v |-> ZeroArrays, adamStep |-> 0,
                              learningRate |-> 10], "HeUniform")
    /\ uniforms = ZeroArrays
    /\ fieldDirty = TRUE
    /\ trainCalls = 0
    /\ drawn = << >>
    /\ cfgChanges = 0
    /\ auxWriter = "none"
    /\ call = NoCall

\* The optimizer kind that last wrote the m arrays: the SGDMomentum branch
\* stores its velocity there and the Adam branch its first moment; plain SGD
\* and the fixed-topology network write none.
WrittenBy(T, w, trained) ==
    IF trained = 1 /\ variant # "App" /\ T.optimizerType # "SGD"
    THEN T.optimizerType ELSE w

\* ------------------------------------------------------------ the frame loop
Desktop == variant \in {"App", "Steps"}

\* Training steps the frame about to start will take.
StepsNeeded(st) == (IF st THEN 1 ELSE 0) + (IF trainer.autoTrain THEN 1 ELSE 0)

\* Start of updateAndRenderFrame / of one iteration of the render loop:
\* drawControlPanel reports the regenerate and step requests (none in the
\* WebAssembly build, whose controls live behind the C API), then
\*   if (regenerate) { clamp numPoints; generateDataset; reset; setDirty }
\* rates holds the positions the "Learning Rate" slider may report in this
\* frame.
BeginFrameWith(rates) ==
    /\ pc = "idle"
    /\ pc' = "step"
    /\ trainCalls' = 0
    /\ \E rg \in BOOLEAN, st \in BOOLEAN, lr \in rates :
          /\ ~Desktop => (~rg /\ ~st /\ lr = trainer.learningRate)
          /\ rg \/ trainer.stepCount + StepsNeeded(st) <= MaxSteps
          /\ stepTrainRequested' = st
          /\ justReset' = IF rg THEN ResetFrom("dataset", trainer, net) ELSE NoReset
          /\ IF rg
             THEN \E np \in RequestedPoints :
                    LET r == IF variant = "App"
                             THEN loopRegenerateReset(trainer, net)
                             ELSE resetForNewDataset(trainer, net)
                    IN  /\ dataset' = generateDataset(dataset.index,
                                                       ClampPoints(np), dataset)
                        /\ trainer' = [r.t EXCEPT !.learningRate = lr]
                        /\ net' = r.n
                        /\ fieldDirty' = TRUE
                        /\ drawn' = << >>
                        /\ auxWriter' = "none"
             ELSE /\ trainer' = [trainer EXCEPT !.learningRate = lr]
                  /\ UNCHANGED << dataset, net, fieldDirty, drawn, auxWriter >>
    /\ UNCHANGED << variant, call, uniforms, cfgChanges >>

\* A frame in which the "Learning Rate" slider is left alone.
BeginFrame == BeginFrameWith({trainer.learningRate})

\* A frame in which the "Learning Rate" slider may be moved.
BeginFrameSlider == BeginFrameWith(SliderLearningRates)

\* net.learningRate = uiLearningRate, the statement of the monolithic render
\* loop between its control window and its auto-train block; the other
\* revisions push the learning rate inside stepOnce.
SyncLearningRate(T, N) ==
    IF variant = "App" THEN [N EXCEPT !.learningRate = T.learningRate] ELSE N

\* if (stepTrainRequested) { stepOnce; setDirty }; in the monolithic render
\* loop the Step Train button, then net.learningRate = uiLearningRate.
FrameStep ==
    /\ pc = "step"
    /\ pc' = "auto"
    /\ justReset' = NoReset
    /\ IF stepTrainRequested
       THEN \E o \in BatchOutcomes :
              LET s == IF variant = "App"
                       THEN loopStepTrain(trainer, net, dataset.size, o)
                       ELSE stepOnce(trainer, net, dataset.size, o)
              IN  /\ trainer' = s.t
                  /\ net' = SyncLearningRate(s.t, s.n)
                  /\ trainCalls' = trainCalls + s.trained
                  /\ drawn' = IF s.trained = 1 THEN drawn \o s.t.m_batch ELSE drawn
                  /\ auxWriter' = WrittenBy(trainer, auxWriter, s.trained)
                  /\ fieldDirty' = TRUE
       ELSE /\ net' = SyncLearningRate(trainer, net)
            /\ UNCHANGED << trainer, trainCalls, drawn, auxWriter, fieldDirty >>
    /\ UNCHANGED << variant, call, stepTrainRequested, dataset, uniforms, cfgChanges >>

\* if (autoTrain) { if (stepAuto(dataset)) setDirty }
FrameAuto ==
    /\ pc = "auto"
    /\ pc' = "upload"
    /\ IF trainer.autoTrain
       THEN \E o \in BatchOutcomes :
              LET s == IF variant = "App"
                       THEN loopAutoTrain(trainer, net, dataset.size, o)
                       ELSE AutoStep(trainer, net, dataset.size, o)
              IN  /\ trainer' = s.t
                  /\ net' = s.n
                  /\ trainCalls' = trainCalls + s.trained
                  /\ drawn' = IF s.trained = 1 THEN drawn \o s.t.m_batch ELSE drawn
                  /\ auxWriter' = WrittenBy(trainer, auxWriter, s.trained)
                  /\ fieldDirty' = (fieldDirty \/ s.ret)
       ELSE UNCHANGED << trainer, net, trainCalls, drawn, auxWriter, fieldDirty >>
    /\ UNCHANGED << variant, call, stepTrainRequested, dataset, justReset,
                    uniforms, cfgChanges >>

\* if (isDirty) update(); then the six parameter arrays go to the field
\* shader (the monolithic loop shades the field on the CPU and uploads none).
FrameUpload ==
    /\ pc = "upload"
    /\ pc' = "draw"
    /\ fieldDirty' = FALSE
    /\ uniforms' = IF variant = "App" THEN uniforms ELSE UploadUniforms(net.P)
    /\ UNCHANGED << variant, call, stepTrainRequested, dataset, justReset, trainer,
                    net, trainCalls, drawn, auxWriter, cfgChanges >>

\* fieldVis.draw() and the rest of the frame; the frame's locals end here.
FrameDraw ==
    /\ pc = "draw"
    /\ pc' = "idle"
    /\ stepTrainRequested' = FALSE
    /\ trainCalls' = 0
    /\ UNCHANGED << variant, call, dataset, justReset, trainer, net, uniforms,
                    fieldDirty, drawn, auxWriter, cfgChanges >>

\* ------------------------------------------------- control surface, desktop
CanConfigure == pc = "idle" /\ cfgChanges < MaxConfigChanges

\* Guard of the optimizer controls.
CanConfigureOptimizer == pc = "idle" /\ cfgChanges < MaxOptimizerChanges

\* What a setter that only stores a trainer field leaves alone.
ConfigFrame == << variant, call, pc, stepTrainRequested, dataset, net, uniforms,
                  fieldDirty, trainCalls, drawn, auxWriter >>

\* Checkbox "Auto Train".
UiSetAutoTrain ==
    /\ pc = "idle" /\ Desktop
    /\ trainer' = [trainer EXCEPT !.autoTrain = ~trainer.autoTrain]
    /\ justReset' = NoReset
    /\ UNCHANGED << ConfigFrame, cfgChanges >>

\* SliderInt "Batch Size", 1 .. MaxBatch.
UiSetBatchSize ==
    /\ CanConfigure /\ Desktop
    /\ \E b \in 1..MaxBatch :
          /\ b # trainer.batchSize
          /\ trainer' = [trainer EXCEPT !.batchSize = b]
    /\ justReset' = NoReset
    /\ cfgChanges' = cfgChanges + 1
    /\ UNCHANGED ConfigFrame

\* SliderInt "Auto Max Steps", from 1.
UiSetAutoMax ==
    /\ CanConfigure /\ Desktop
    /\ \E a \in 1..2 :
          /\ a # trainer.autoMaxSteps
          /\ trainer' = [trainer EXCEPT !.autoMaxSteps = a]
    /\ justReset' = NoReset
    /\ cfgChanges' = cfgChanges + 1
    /\ UNCHANGED ConfigFrame

\* SliderFloat "Auto Target Loss".
UiSetTargetLoss ==
    /\ CanConfigure /\ Desktop
    /\ \E l \in 0..1 :
          /\ l # trainer.autoTargetLoss
          /\ trainer' = [trainer EXCEPT !.autoTargetLoss = l]
    /\ justReset' = NoReset
    /\ cfgChanges' = cfgChanges + 1
    /\ UNCHANGED ConfigFrame

\* Combo "Optimizer".
UiSetOptimizer ==
    /\ CanConfigureOptimizer /\ variant = "Steps"
    /\ \E t \in OptimizerTypes :
          /\ t # trainer.optimizerType
          /\ trainer' = [trainer EXCEPT !.optimizerType = t]
    /\ justReset' = NoReset
    /\ cfgChanges' = cfgChanges + 1
    /\ UNCHANGED ConfigFrame

\* SliderFloat "Momentum", 0 .. 0.99, drawn only while SGD + Momentum is
\* selected.
UiSetMomentum ==
    /\ CanConfigureOptimizer /\ variant = "Steps"
    /\ trainer.optimizerType = "SGDMomentum"
    /\ \E mu \in {0, 5, Den - 1} :
          /\ mu # trainer.momentum
          /\ trainer' = [trainer EXCEPT !.momentum = mu]
    /\ justReset' = NoReset
    /\ cfgChanges' = cfgChanges + 1
    /\ UNCHANGED ConfigFrame

\* Combo "Init Mode": stores the mode and calls resetForNewDataset.
UiSetInitMode ==
    /\ CanConfigure /\ variant = "Steps"
    /\ \E md \in InitModes :
          LET r == resetForNewDataset([trainer EXCEPT !.initMode = md], net)
          IN  /\ md # trainer.initMode
              /\ trainer' = r.t
              /\ net' = r.n
    /\ drawn' = << >>
    /\ auxWriter' = "none"
    /\ justReset' = ResetFrom("initMode", trainer, net)
    /\ cfgChanges' = cfgChanges + 1
    /\ UNCHANGED << variant, call, pc, stepTrainRequested, dataset, uniforms,
                    fieldDirty, trainCalls >>

\* --------------------------------------------------- control surface, C API
WasmIdle == pc = "idle" /\ variant = "Wasm"

\* nn_set_dataset(datasetIndex, numPoints, spread): clamp numPoints, store
\* datasetIndex as it came, generateDataset, resetForNewDataset, setDirty.
\* indices holds the datasetIndex arguments of the call.
nn_set_dataset_With(indices) ==
    /\ WasmIdle
    /\ \E np \in RequestedPoints, datasetIndex \in indices :
          LET r == resetForNewDataset(trainer, net)
          IN  /\ dataset' = generateDataset(datasetIndex, ClampPoints(np), dataset)
              /\ trainer' = r.t
              /\ net' = r.n
    /\ justReset' = ResetFrom("dataset", trainer, net)
    /\ fieldDirty' = TRUE
    /\ drawn' = << >>
    /\ auxWriter' = "none"
    /\ UNCHANGED << variant, call, pc, stepTrainRequested, uniforms, trainCalls,
                    cfgChanges >>

\* Faulty variant of nn_set_dataset, rejected by C2: the dataset is replaced
\* without calling resetForNewDataset.
nn_set_dataset_NoReset ==
    /\ WasmIdle
    /\ \E np \in RequestedPoints :
          dataset' = generateDataset(0, ClampPoints(np), dataset)
    /\ justReset' = ResetFrom("dataset", trainer, net)
    /\ fieldDirty' = TRUE
    /\ drawn' = << >>
    /\ auxWriter' = auxWriter
    /\ UNCHANGED << variant, call, pc, stepTrainRequested, trainer, net, uniforms,
                    trainCalls, cfgChanges >>

\* nn_set_dataset with the index of the dataset type the program starts with.
nn_set_dataset == nn_set_dataset_With({0})

\* nn_set_dataset with a datasetIndex of the caller's choice.
nn_set_dataset_Any == nn_set_dataset_With(RequestedDatasetIndex)

nn_set_auto_train ==
    /\ WasmIdle
    /\ \E enabled \in {0, 1} :
          /\ (enabled # 0) # trainer.autoTrain
          /\ trainer' = [trainer EXCEPT !.autoTrain = (enabled # 0)]
    /\ justReset' = NoReset
    /\ UNCHANGED << ConfigFrame, cfgChanges >>

nn_step_train ==
    /\ WasmIdle
    /\ trainer.stepCount < MaxSteps
    /\ \E o \in BatchOutcomes :
          LET s == stepOnce(trainer, net, dataset.size, o)
          IN  /\ trainer' = s.t
              /\ net' = s.n
              /\ drawn' = IF s.trained = 1 THEN drawn \o s.t.m_batch ELSE drawn
              /\ auxWriter' = WrittenBy(trainer, auxWriter, s.trained)
    /\ justReset' = NoReset
    /\ fieldDirty' = TRUE
    /\ UNCHANGED << variant, call, pc, stepTrainRequested, dataset, uniforms,
                    trainCalls, cfgChanges >>

nn_set_batch_size ==
    /\ WasmIdle /\ CanConfigure
    /\ \E value \in RequestedBatch :
          LET b == IF value < 1 THEN 1
                   ELSE IF value > MaxBatch THEN MaxBatch ELSE value
          IN  /\ b # trainer.batchSize
              /\ trainer' = [trainer EXCEPT !.batchSize = b]
    /\ justReset' = NoReset
    /\ cfgChanges' = cfgChanges + 1
    /\ UNCHANGED ConfigFrame

nn_set_auto_max_epochs ==
    /\ WasmIdle /\ CanConfigure
    /\ \E value \in RequestedAutoMax :
          LET a == IF value < 0 THEN 0 ELSE value
          IN  /\ a # trainer.autoMaxSteps
              /\ trainer' = [trainer EXCEPT !.autoMaxSteps = a]
    /\ justReset' = NoReset
    /\ cfgChanges' = cfgChanges + 1
    /\ UNCHANGED ConfigFrame

nn_set_auto_target_loss ==
    /\ WasmIdle /\ CanConfigure
    /\ \E value \in RequestedTargetLoss :
          LET l == IF value < 0 THEN 0 ELSE value
          IN  /\ l # trainer.autoTargetLoss
              /\ trainer' = [trainer EXCEPT !.autoTargetLoss = l]
    /\ justReset' = NoReset
    /\ cfgChanges' = cfgChanges + 1
    /\ UNCHANGED ConfigFrame

nn_set_use_target_loss_stop ==
    /\ WasmIdle /\ CanConfigure
    /\ \E enabled \in {0, 1} :
          /\ (enabled # 0) # trainer.useTargetLossStop
          /\ trainer' = [trainer EXCEPT !.useTargetLossStop = (enabled # 0)]
    /\ justReset' = NoReset
    /\ cfgChanges' = cfgChanges + 1
    /\ UNCHANGED ConfigFrame

\* OptimizerType by index: SGD = 0, SGDMomentum = 1, Adam = 2.
OptimizerOfIndex(i) == IF i = 0 THEN "SGD" ELSE IF i = 1 THEN "SGDMomentum" ELSE "Adam"

\* Faulty variant of nn_set_optimizer, rejected by C13: a change of kind
\* also clears the optimizer state of the network.
nn_set_optimizer_ResetsState ==
    /\ WasmIdle /\ CanConfigureOptimizer
    /\ \E optimizerType \in -1..3 :
          LET i == IF optimizerType < 0 THEN 0
                   ELSE IF optimizerType > 2 THEN 2 ELSE optimizerType
              r == optimizerResetState(net.m, net.v, net.adamStep)
          IN  /\ OptimizerOfIndex(i) # trainer.optimizerType
              /\ trainer' = [trainer EXCEPT !.optimizerType = OptimizerOfIndex(i)]
              /\ net' = [net EXCEPT !.m = r.m, !.v = r.v, !.adamStep = r.adamStep]
    /\ justReset' = NoReset
    /\ cfgChanges' = cfgChanges + 1
    /\ UNCHANGED << variant, call, pc, stepTrainRequested, dataset, uniforms,
                    fieldDirty, trainCalls, drawn, auxWriter >>

\* nn_set_optimizer: clamp the index to [0, 2], store the kind.
nn_set_optimizer ==
    /\ WasmIdle /\ CanConfigureOptimizer
    /\ \E optimizerType \in -1..3 :
          LET i == IF optimizerType < 0 THEN 0
                   ELSE IF optimizerType > 2 THEN 2 ELSE optimizerType
          IN  /\ OptimizerOfIndex(i) # trainer.optimizerType
              /\ trainer' = [trainer EXCEPT !.optimizerType = OptimizerOfIndex(i)]
    /\ justReset' = NoReset
    /\ cfgChanges' = cfgChanges + 1
    /\ UNCHANGED ConfigFrame

\* nn_set_learning_rate: an argument <= 0 becomes 1e-6, store.
nn_set_learning_rate ==
    /\ WasmIdle /\ CanConfigureOptimizer
    /\ \E value \in RequestedLearningRate :
          LET lr == IF value <= 0 THEN TinyLearningRate ELSE value
          IN  /\ lr # trainer.learningRate
              /\ trainer' = [trainer EXCEPT !.learningRate = lr]
    /\ justReset' = NoReset
    /\ cfgChanges' = cfgChanges + 1
    /\ UNCHANGED ConfigFrame

\* nn_set_momentum: clamp to [0, 0.99], store.
nn_set_momentum ==
    /\ WasmIdle /\ CanConfigureOptimizer
    /\ \E value \in RequestedMomentum :
          LET mu == IF value < 0 THEN 0
                    ELSE IF value > Den - 1 THEN Den - 1 ELSE value
          IN  /\ mu # trainer.momentum
              /\ trainer' = [trainer EXCEPT !.momentum = mu]
    /\ justReset' = NoReset
    /\ cfgChanges' = cfgChanges + 1
    /\ UNCHANGED ConfigFrame

\* nn_set_adam_beta1: clamp to [0, 0.9999], store.
nn_set_adam_beta1 ==
    /\ WasmIdle /\ CanConfigureOptimizer
    /\ \E value \in RequestedBeta :
          LET b == IF value < 0 THEN 0
                   ELSE IF value > Den - 1 THEN Den - 1 ELSE value
          IN  /\ b # trainer.adamBeta1
              /\ trainer' = [trainer EXCEPT !.adamBeta1 = b]
    /\ justReset' = NoReset
    /\ cfgChanges' = cfgChanges + 1
    /\ UNCHANGED ConfigFrame

\* nn_set_adam_beta2: clamp to [0, 0.9999], store.
nn_set_adam_beta2 ==
    /\ WasmIdle /\ CanConfigureOptimizer
    /\ \E value \in RequestedBeta :
          LET b == IF value < 0 THEN 0
                   ELSE IF value > Den - 1 THEN Den - 1 ELSE value
          IN  /\ b # trainer.adamBeta2
              /\ trainer' = [trainer EXCEPT !.adamBeta2 = b]
    /\ justReset' = NoReset
    /\ cfgChanges' = cfgChanges + 1
    /\ UNCHANGED ConfigFrame

\* nn_set_adam_eps: an argument below 1e-10 becomes 1e-10 (both 0 on the
\* scale of the model), store.
nn_set_adam_eps ==
    /\ WasmIdle /\ CanConfigureOptimizer
    /\ \E value \in RequestedEps :
          LET e == IF value < 0 THEN 0 ELSE value
          IN  /\ e # trainer.adamEps
              /\ trainer' = [trainer EXCEPT !.adamEps = e]
    /\ justReset' = NoReset
    /\ cfgChanges' = cfgChanges + 1
    /\ UNCHANGED ConfigFrame

\* InitMode by index: Zero = 0, HeUniform = 1, HeNormal = 2.
InitModeOfIndex(i) == IF i = 0 THEN "Zero" ELSE IF i = 1 THEN "HeUniform" ELSE "HeNormal"

nn_set_init_mode ==
    /\ WasmIdle /\ CanConfigure
    /\ \E initMode \in -1..3 :
          LET i == IF initMode < 0 THEN 0 ELSE IF initMode > 2 THEN 2 ELSE initMode
              r == resetForNewDataset([trainer EXCEPT !.initMode = InitModeOfIndex(i)], net)
          IN  /\ trainer' = r.t
              /\ net' = r.n
    /\ justReset' = ResetFrom("initMode", trainer, net)
    /\ fieldDirty' = TRUE
    /\ drawn' = << >>
    /\ auxWriter' = "none"
    /\ cfgChanges' = cfgChanges + 1
    /\ UNCHANGED << variant, call, pc, stepTrainRequested, dataset, uniforms,
                    trainCalls >>

\* The frame loop with the training controls; the optimizer and the init
\* mode stay as constructed.
Next ==
    \/ BeginFrame
    \/ FrameStep
    \/ FrameAuto
    \/ FrameUpload
    \/ FrameDraw
    \/ UiSetAutoTrain
    \/ UiSetBatchSize
    \/ UiSetAutoMax
    \/ UiSetTargetLoss
    \/ nn_set_dataset
    \/ nn_set_auto_train
    \/ nn_step_train
    \/ nn_set_batch_size
    \/ nn_set_auto_max_epochs
    \/ nn_set_auto_target_loss
    \/ nn_set_use_target_loss_stop

Spec == Init /\ [][Next]_vars

\* The optimizer, momentum and init-mode controls of the revisions that have
\* them: the desktop frame with its step request and combos, and the C API's
\* single steps, dataset replacement and setters.  Batch size, auto-train
\* and the stopping bounds stay as constructed, so a WebAssembly frame trains
\* nothing here and only the desktop frames are followed.
InitOptimizer == Init /\ variant # "App"

DesktopFrame == Desktop /\ BeginFrame

NextOptimizer ==
    \/ DesktopFrame
    \/ FrameStep
    \/ FrameAuto
    \/ FrameUpload
    \/ FrameDraw
    \/ UiSetOptimizer
    \/ UiSetMomentum
    \/ UiSetInitMode
    \/ nn_set_dataset
    \/ nn_step_train
    \/ nn_set_optimizer
    \/ nn_set_momentum
    \/ nn_set_init_mode

SpecOptimizer == InitOptimizer /\ [][NextOptimizer]_vars

\* The learning rate under change: frames in which the slider may move
\* before a step request, auto-train, and the C API's setter and single
\* steps.  The other settings stay as constructed.
NextLearningRate ==
    \/ BeginFrameSlider
    \/ FrameStep
    \/ FrameAuto
    \/ FrameUpload
    \/ FrameDraw
    \/ UiSetAutoTrain
    \/ nn_set_auto_train
    \/ nn_set_learning_rate
    \/ nn_step_train

SpecLearningRate == Init /\ [][NextLearningRate]_vars

\* The control surface of the WebAssembly build on its own: sequences of
\* calls of the C API's setters with arguments inside and outside their
\* ranges.
InitApi == Init /\ variant = "Wasm"

NextApi ==
    \/ nn_set_dataset_Any
    \/ nn_set_auto_train
    \/ nn_set_learning_rate
    \/ nn_set_batch_size
    \/ nn_set_auto_max_epochs
    \/ nn_set_auto_target_loss
    \/ nn_set_use_target_loss_stop
    \/ nn_set_optimizer
    \/ nn_set_momentum
    \/ nn_set_adam_beta1
    \/ nn_set_adam_beta2
    \/ nn_set_adam_eps
    \/ nn_set_init_mode

SpecApi == InitApi /\ [][NextApi]_vars

\* ------------------------------------------------------------- direct calls
\* The member functions of Trainer and ToyNet called one at a time on
\* objects whose public fields and arguments range over bounded sets, the
\* empty dataset and the empty batch included.
Called(op, batch, ret) ==
    [ op |-> op, batch |-> batch, ret |-> ret, trainer |-> trainer,
      net |-> net, drawn |-> drawn, dataCount |-> dataset.size ]

InitDirect ==
    /\ variant \in Variants
    /\ pc = "idle"
    /\ stepTrainRequested = FALSE
    /\ \E size \in 0..MaxPoints, b \in DirectBatchSizes :
          \E cursor \in 0..Max(size - 1, 0) :
             /\ dataset = [size |-> size, index |-> 0]
             /\ trainer = [InitTrainer EXCEPT !.batchSize = b,
                                              !.m_dataCursor = cursor]
    /\ justReset = NoReset
    /\ net = resetParameters([P |-> ZeroArrays, m |-> ZeroArrays,
                              v |-> ZeroArrays, adamStep |-> 0,
                              learningRate |-> 10], "HeUniform")
    /\ uniforms = ZeroArrays
    /\ fieldDirty = TRUE
    /\ trainCalls = 0
    /\ drawn = << >>
    /\ cfgChanges = 0
    /\ auxWriter = "none"
    /\ call = NoCall

\* What a direct call on the trainer and the network leaves alone.
DirectFrame == << variant, pc, stepTrainRequested, dataset, justReset,
                 uniforms, fieldDirty, cfgChanges >>

\* makeBatch(dataset): Trainer::makeBatch, or the lambda of the monolithic
\* render loop with uiBatchSize as its argument.
CallMakeBatch ==
    /\ trainCalls < MaxSteps
    /\ LET b == IF variant = "App" THEN makeBatchLambda(trainer, dataset.size)
                ELSE makeBatch(trainer, dataset.size)
       IN  /\ trainer' = [trainer EXCEPT !.m_batch = b.batch,
                                         !.m_dataCursor = b.cursor]
           /\ drawn' = drawn \o b.batch
           /\ call' = Called("makeBatch", b.batch, 0)
    /\ trainCalls' = trainCalls + 1
    /\ UNCHANGED << DirectFrame, net, auxWriter >>

\* trainer.stepOnce(dataset).
CallStepOnce ==
    /\ variant # "App"
    /\ trainCalls < MaxSteps
    /\ \E o \in BatchOutcomes :
          LET s == stepOnce(trainer, net, dataset.size, o)
          IN  /\ trainer' = s.t
              /\ net' = s.n
              /\ drawn' = IF s.trained = 1 THEN drawn \o s.t.m_batch ELSE drawn
              /\ auxWriter' = WrittenBy(trainer, auxWriter, s.trained)
              /\ call' = Called("stepOnce", s.t.m_batch, s.trained)
    /\ trainCalls' = trainCalls + 1
    /\ UNCHANGED DirectFrame

\* net.trainBatch(batch, accuracy) on a batch of the caller's choice.
CallTrainBatch ==
    /\ trainCalls < MaxSteps
    /\ \E o \in BatchOutcomes, batch \in DirectBatches :
          LET r == trainBatch(net, batch, trainer, o)
          IN  /\ net' = r.n
              /\ auxWriter' = WrittenBy(trainer, auxWriter,
                                        IF Len(batch) > 0 THEN 1 ELSE 0)
              /\ call' = Called("trainBatch", batch,
                                [loss |-> r.loss, acc |-> r.acc])
    /\ trainCalls' = trainCalls + 1
    /\ UNCHANGED << DirectFrame, trainer, drawn >>

\* net.forwardSingle(x, y, p0, p1), as the probe of drawControlPanel and the
\* field shading call it.
CallForwardSingle ==
    /\ \E x \in ProbeCoords, y \in ProbeCoords :
          LET f == forwardSingle(net, x, y)
          IN  /\ net' = f.n
              /\ call' = Called("forwardSingle", << x, y >>, f.predicted)
    /\ UNCHANGED << DirectFrame, trainer, drawn, auxWriter, trainCalls >>

NextDirect ==
    \/ CallMakeBatch
    \/ CallStepOnce
    \/ CallTrainBatch
    \/ CallForwardSingle

SpecDirect == InitDirect /\ [][NextDirect]_vars

\* ------------------------------------- the network with resizable hidden layers
\* The revision of ToyNet whose hidden widths are set at run time.  Its net
\* is [hidden1, hidden2, P, dP, scratch, learningRate]: the six parameter
\* arrays, the six gradient buffers and the length of each scratch buffer
\* (their contents are overwritten by every batch and never read across
\* batches).  It has no optimizer state: trainBatch is plain gradient descent.

\* ToyNet::MinHidden / ToyNet::MaxHidden, scaled down.
MinHidden == 1
MaxHidden == 2
\* ToyNet::ToyNet sets hidden1 = hidden2 = 4; scaled down.
DefaultHidden == 1
\* Cap on the number of setHiddenSizes calls of a behaviour.
MaxResizes == 2
\* setHiddenSizes arguments: below, inside and above [MinHidden, MaxHidden].
RequestedHidden == {MinHidden - 1, MinHidden, MaxHidden, MaxHidden + 1}
\* Batches passed to trainBatch: empty, one sample, more than MaxBatch.
SizedBatches == {<< >>, << 0 >>, [i \in 1..(MaxBatch + 1) |-> 0]}

ScratchNames == {"a0", "z1", "a1", "z2", "a2", "logits", "probs"}

\* idx(row, col, cols) of the anonymous namespace: row-major flattening.
idx(row, col, cols) == row * cols + col

\* The declared dimensions of the six arrays for hidden widths h1 and h2.
SizedLen(k, h1, h2) ==
    CASE k = "W1" -> h1 * InputDim
      [] k = "b1" -> h1
      [] k = "W2" -> h2 * h1
      [] k = "b2" -> h2
      [] k = "W3" -> OutputDim * h2
      [] k = "b3" -> OutputDim

\* Width of a row of a scratch buffer.
ScratchWidth(s, h1, h2) ==
    CASE s = "a0" -> InputDim
      [] s \in {"z1", "a1"} -> h1
      [] s \in {"z2", "a2"} -> h2
      [] OTHER -> OutputDim

\* std::vector<float>::resize(n): the first min(size, n) elements keep their
\* values, new elements are 0.
Resize(s, n) == [i \in 1..n |-> IF i <= Len(s) THEN s[i] ELSE 0]

ClampHidden(h) ==
    IF h < MinHidden THEN MinHidden ELSE IF h > MaxHidden THEN MaxHidden ELSE h

\* Faulty variant of setHiddenSizes, rejected by C22: the gradient buffers
\* keep the lengths of the old shape.
setHiddenSizesStaleGradients(N, h1, h2) ==
    [N EXCEPT !.hidden1 = ClampHidden(h1), !.hidden2 = ClampHidden(h2),
              !.P = [k \in ParamNames |->
                        Resize(N.P[k], SizedLen(k, ClampHidden(h1), ClampHidden(h2)))],
              !.scratch = [s \in ScratchNames |->
                        MaxBatch * ScratchWidth(s, ClampHidden(h1), ClampHidden(h2))]]

\* ToyNet::setHiddenSizes: clamp both widths, store them, resize the six
\* parameter arrays, the seven scratch buffers and the six gradient buffers.
\* Nothing is re-drawn: resize keeps the leading elements of every array.
setHiddenSizes(N, h1, h2) ==
    [N EXCEPT !.hidden1 = ClampHidden(h1), !.hidden2 = ClampHidden(h2),
              !.P = [k \in ParamNames |->
                        Resize(N.P[k], SizedLen(k, ClampHidden(h1), ClampHidden(h2)))],
              !.scratch = [s \in ScratchNames |->
                        MaxBatch * ScratchWidth(s, ClampHidden(h1), ClampHidden(h2))],
              !.dP = [k \in ParamNames |->
                        Resize(N.dP[k], SizedLen(k, ClampHidden(h1), ClampHidden(h2)))]]

\* Position of an array's first draw in resetParameters: W1, W2 and W3 are
\* filled in this order, each over its current length.
SizedOffset(k, P) ==
    CASE k = "W2" -> Len(P["W1"])
      [] k = "W3" -> Len(P["W1"]) + Len(P["W2"])
      [] OTHER -> 0

\* ToyNet::resetParameters(1) of the resizable network: every weight is
\* re-drawn, every bias zeroed; the arrays keep their lengths.
resetParametersSized(N) ==
    [N EXCEPT !.P = [k \in ParamNames |-> [i \in 1..Len(N.P[k]) |->
                        IF IsBias(k) THEN 0
                        ELSE randUniform(SizedOffset(k, N.P) + i)]]]

\* The parameters a network of widths h1, h2 holds right after
\* resetParameters.
InitialParametersSized(h1, h2) ==
    resetParametersSized(
        [P |-> [k \in ParamNames |-> [i \in 1..SizedLen(k, h1, h2) |-> 0]]]).P

\* Faulty variant of SamplesUsed, rejected by C25: every sample of the batch
\* is processed.
SamplesUsedAll(n) == n

\* const int batchSize = std::min(N, MaxBatch).
SamplesUsed(n) == Min(n, MaxBatch)

\* The highest element of each scratch buffer that trainBatch indexes while
\* it processes batchSize samples: idx(n, j, width) with n < batchSize and
\* j < width.
ScratchTouched(N, batchSize) ==
    [s \in ScratchNames |->
        idx(batchSize - 1,
            ScratchWidth(s, N.hidden1, N.hidden2) - 1,
            ScratchWidth(s, N.hidden1, N.hidden2))]

\* ToyNet::trainBatch of the resizable network: the empty-batch guard, the
\* forward and backward pass over min(N, MaxBatch) samples, the gradient
\* buffers filled and averaged, one gradient-descent update of every element
\* of the six arrays.
trainBatchSized(N, batch, o) ==
    IF Len(batch) <= 0
    THEN [n |-> N, loss |-> 0, acc |-> 0, used |-> 0,
          touched |-> [s \in ScratchNames |-> -1]]
    ELSE [n |-> [N EXCEPT
                   !.dP = [k \in ParamNames |-> [i \in 1..Len(N.dP[k]) |-> o.grad]],
                   !.P = [k \in ParamNames |-> [i \in 1..Len(N.P[k]) |->
                             N.P[k][i] - N.learningRate * o.grad]]],
          loss |-> o.loss, acc |-> o.acc,
          used |-> SamplesUsed(Len(batch)),
          touched |-> ScratchTouched(N, SamplesUsed(Len(batch)))]

\* ToyNet::ToyNet: widths 4 and 4, setHiddenSizes on the empty vectors,
\* resetParameters(1).
ConstructSized ==
    resetParametersSized(
        setHiddenSizes([hidden1 |-> DefaultHidden, hidden2 |-> DefaultHidden,
                        P |-> [k \in ParamNames |-> << >>],
                        dP |-> [k \in ParamNames |-> << >>],
                        scratch |-> [s \in ScratchNames |-> 0],
                        learningRate |-> 10],
                       DefaultHidden, DefaultHidden))

\* The last direct call on the resizable network: its arguments, its result
\* and the network it was called on.
CalledSized(op, args, ret) ==
    [op |-> op, args |-> args, ret |-> ret, net |-> net]

InitSized ==
    /\ variant = "Resizable"
    /\ pc = "idle"
    /\ stepTrainRequested = FALSE
    /\ dataset = [size |-> 0, index |-> 0]
    /\ justReset = NoReset
    /\ trainer = InitTrainer
    /\ net = ConstructSized
    /\ uniforms = ZeroArrays
    /\ fieldDirty = TRUE
    /\ trainCalls = 0
    /\ drawn = << >>
    /\ cfgChanges = 0
    /\ auxWriter = "none"
    /\ call = NoCall

\* What a direct call on the resizable network leaves alone.
SizedFrame == << variant, pc, stepTrainRequested, dataset, justReset, trainer,
                uniforms, fieldDirty, drawn, auxWriter >>

\* net.setHiddenSizes(h1, h2).
CallSetHiddenSizes ==
    /\ cfgChanges < MaxResizes
    /\ \E h1 \in RequestedHidden, h2 \in RequestedHidden :
          /\ net' = setHiddenSizes(net, h1, h2)
          /\ call' = CalledSized("setHiddenSizes", << h1, h2 >>, 0)
    /\ cfgChanges' = cfgChanges + 1
    /\ UNCHANGED << SizedFrame, trainCalls >>

\* net.resetParameters().
CallResetParameters ==
    /\ net' = resetParametersSized(net)
    /\ call' = CalledSized("resetParameters", << >>, 0)
    /\ UNCHANGED << SizedFrame, trainCalls, cfgChanges >>

\* net.trainBatch(batch, accuracy).
CallTrainBatchSized ==
    /\ trainCalls < MaxSteps
    /\ \E o \in BatchOutcomes, batch \in SizedBatches :
          LET r == trainBatchSized(net, batch, o)
          IN  /\ net' = r.n
              /\ call' = CalledSized("trainBatch", batch,
                                     [loss |-> r.loss, acc |-> r.acc,
                                      used |-> r.used, touched |-> r.touched])
    /\ trainCalls' = trainCalls + 1
    /\ UNCHANGED << SizedFrame, cfgChanges >>

NextSized ==
    \/ CallSetHiddenSizes
    \/ CallResetParameters
    \/ CallTrainBatchSized

SpecSized == InitSized /\ [][NextSized]_vars

\* ------------------------------------------ the trainer with bounded history
\* The revision of Trainer that owns its network and keeps the loss and
\* accuracy histories in two arrays of HistorySize elements; its network is
\* the fixed-topology one with plain gradient descent.

\* Trainer::HistorySize is 4096 in the source; scaled down.
HistorySize == 2
\* Cap on the step counter of this revision between two resets; above
\* HistorySize, so that the history overflows more than once.
MaxRecordedSteps == 4

\* lossHistory / accuracyHistory after the zero-fill loop of the constructor
\* and of resetForNewDataset.
ZeroHistory == [i \in 1..HistorySize |-> 0]

\* Faulty variant of recordHistory, rejected by C23: a full history is a
\* ring whose oldest slot is overwritten in place.
recordHistoryRing(T) ==
    IF T.historyCount < HistorySize
    THEN [T EXCEPT !.lossHistory[T.historyCount + 1] = T.lastLoss,
                   !.accuracyHistory[T.historyCount + 1] = T.lastAccuracy,
                   !.historyCount = T.historyCount + 1]
    ELSE [T EXCEPT !.lossHistory[((T.stepCount - 1) % HistorySize) + 1] = T.lastLoss,
                   !.accuracyHistory[((T.stepCount - 1) % HistorySize) + 1] = T.lastAccuracy]

\* The tail of the bounded stepOnce: while the arrays have room the pair
\* (lastLoss, lastAccuracy) goes to slot historyCount and the count grows;
\* once full, every element moves down one slot and the pair goes last.
recordHistory(T) ==
    IF T.historyCount < HistorySize
    THEN [T EXCEPT !.lossHistory[T.historyCount + 1] = T.lastLoss,
                   !.accuracyHistory[T.historyCount + 1] = T.lastAccuracy,
                   !.historyCount = T.historyCount + 1]
    ELSE [T EXCEPT !.lossHistory = [i \in 1..HistorySize |->
                        IF i < HistorySize THEN T.lossHistory[i + 1] ELSE T.lastLoss],
                   !.accuracyHistory = [i \in 1..HistorySize |->
                        IF i < HistorySize THEN T.accuracyHistory[i + 1]
                        ELSE T.lastAccuracy]]

\* Trainer::stepOnce of the bounded-history revision.
stepOnceBounded(T, N, dataCount, o) ==
    IF dataCount = 0 THEN [t |-> T, n |-> N, trained |-> 0]
    ELSE LET b == makeBatch(T, dataCount)
             r == trainBatchFixed([N EXCEPT !.learningRate = T.learningRate],
                                  b.batch, T.learningRate, o)
         IN  [ t |-> recordHistory(
                        [T EXCEPT !.m_batch = b.batch, !.m_dataCursor = b.cursor,
                                  !.lastLoss = r.loss, !.lastAccuracy = r.acc,
                                  !.stepCount = T.stepCount + 1]),
               n |-> r.n, trained |-> 1 ]

\* Trainer::stepAuto of the bounded-history revision.
stepAutoBounded(T, N, dataCount, o) ==
    IF ~T.autoTrain THEN [t |-> T, n |-> N, trained |-> 0, ret |-> FALSE]
    ELSE LET s == stepOnceBounded(T, N, dataCount, o)
             stop == s.t.stepCount >= s.t.autoMaxSteps
                        \/ s.t.lastLoss <= s.t.autoTargetLoss
         IN  [ t |-> [s.t EXCEPT !.autoTrain = IF stop THEN FALSE ELSE @],
               n |-> s.n, trained |-> s.trained, ret |-> TRUE ]

\* Trainer::resetForNewDataset of the bounded-history revision.
resetForNewDatasetBounded(T, N) ==
    [ t |-> [T EXCEPT !.stepCount = 0, !.lastLoss = 0, !.lastAccuracy = 0,
                      !.autoTrain = FALSE, !.m_dataCursor = 0,
                      !.historyCount = 0,
                      !.lossHistory = ZeroHistory,
                      !.accuracyHistory = ZeroHistory],
      n |-> resetParametersFixed(N) ]

\* The last call on the bounded-history trainer, the trainer it was called
\* on, and the (loss, accuracy) pairs trainBatch has returned since the last
\* reset, oldest first.
CalledBounded(op, recorded) ==
    [op |-> op, trainer |-> trainer, recorded |-> recorded]

InitBounded ==
    /\ variant = "Bounded"
    /\ pc = "idle"
    /\ stepTrainRequested = FALSE
    /\ \E size \in MinPoints..MaxPoints : dataset = [size |-> size, index |-> 0]
    /\ justReset = NoReset
    /\ trainer = [InitTrainer EXCEPT !.lossHistory = ZeroHistory,
                                     !.accuracyHistory = ZeroHistory]
    /\ net = resetParametersFixed([P |-> ZeroArrays, m |-> ZeroArrays,
                                   v |-> ZeroArrays, adamStep |-> 0,
                                   learningRate |-> 10])
    /\ uniforms = ZeroArrays
    /\ fieldDirty = TRUE
    /\ trainCalls = 0
    /\ drawn = << >>
    /\ cfgChanges = 0
    /\ auxWriter = "none"
    /\ call = CalledBounded("Trainer", << >>)

\* What a call on the bounded-history trainer leaves alone.
BoundedFrame == << variant, pc, stepTrainRequested, dataset, uniforms,
                  fieldDirty, trainCalls, cfgChanges, auxWriter >>

\* trainer.stepOnce(dataset), the Step Train request.
CallStepOnceBounded ==
    /\ trainer.stepCount < MaxRecordedSteps
    /\ \E o \in BatchOutcomes :
          LET s == stepOnceBounded(trainer, net, dataset.size, o)
          IN  /\ trainer' = s.t
              /\ net' = s.n
              /\ drawn' = drawn \o s.t.m_batch
              /\ call' = CalledBounded("stepOnce",
                            Append(call.recorded, << s.t.lastLoss, s.t.lastAccuracy >>))
    /\ justReset' = NoReset
    /\ UNCHANGED BoundedFrame

\* The checkbox "Auto Train".
CallSetAutoTrainBounded ==
    /\ trainer' = [trainer EXCEPT !.autoTrain = ~trainer.autoTrain]
    /\ call' = CalledBounded("setAutoTrain", call.recorded)
    /\ justReset' = NoReset
    /\ UNCHANGED << BoundedFrame, net, drawn >>

\* if (trainer.autoTrain) trainer.stepAuto(dataset), the auto-train tick.
CallStepAutoBounded ==
    /\ trainer.autoTrain
    /\ trainer.stepCount < MaxRecordedSteps
    /\ \E o \in BatchOutcomes :
          LET s == stepAutoBounded(trainer, net, dataset.size, o)
          IN  /\ trainer' = s.t
              /\ net' = s.n
              /\ drawn' = drawn \o s.t.m_batch
              /\ call' = CalledBounded("stepAuto",
                            Append(call.recorded, << s.t.lastLoss, s.t.lastAccuracy >>))
    /\ justReset' = NoReset
    /\ UNCHANGED BoundedFrame

\* trainer.resetForNewDataset(), after the dataset was regenerated.
CallResetBounded ==
    /\ LET r == resetForNewDatasetBounded(trainer, net)
       IN  /\ trainer' = r.t
           /\ net' = r.n
    /\ justReset' = ResetFrom("dataset", trainer, net)
    /\ drawn' = << >>
    /\ call' = CalledBounded("resetForNewDataset", << >>)
    /\ UNCHANGED BoundedFrame

NextBounded ==
    \/ CallStepOnceBounded
    \/ CallSetAutoTrainBounded
    \/ CallStepAutoBounded
    \/ CallResetBounded

SpecBounded == InitBounded /\ [][NextBounded]_vars

\* -------------------------------------------- softmax on the CPU and the GPU
\* Single-sample inference on the CPU (forwardSingleWithActivations) and the
\* fragment shader of the decision field, as functions of the six arrays
\* and the input point.  Magnitudes are carried on the fixed-point scale of
\* the model: E30 stands for 1e30, NegInfinity for
\* -std::numeric_limits<float>::infinity(), below every value a sum can
\* take; std::exp of a non-positive argument is ExpOne halved once per unit
\* and 0 below -ExpRange (underflow); probabilities are in hundredths.
E30 == 1000000
NegInfinity == -1000000000
ExpOne == 1024
ExpRange == 10
ProbOne == 100

\* Values of b3[0], b3[1] of the networks probed: ordinary ones and two
\* below -1e30.
OutputBiases == {0, 2, -2 * E30, -3 * E30}

\* std::exp(d) / exp(d) for d <= 0.
ExpFixed(d) == IF d < -ExpRange THEN 0 ELSE ExpOne \div Pow(2, -d)

\* float maxLogit = init; for each k: if (sum > maxLogit) maxLogit = sum.
RECURSIVE MaxLogitFrom(_, _, _)
MaxLogitFrom(init, l, k) ==
    IF k = 0 THEN init
    ELSE IF l[k] > MaxLogitFrom(init, l, k - 1) THEN l[k]
         ELSE MaxLogitFrom(init, l, k - 1)

\* e = exp(logits[k] - maxLogit) for every k.
ExpTerms(l, maxLogit) == [k \in 1..OutputDim |-> ExpFixed(l[k] - maxLogit)]

\* The end of forwardSingleWithActivations from the exponentials e:
\* expSum <= 0 gives p0 = p1 = 0.5 without dividing, otherwise both are
\* divided by expSum.
NormalizeSingle(e) ==
    IF e[1] + e[2] <= 0
    THEN [fallback |-> TRUE, p0 |-> ProbOne \div 2, p1 |-> ProbOne \div 2]
    ELSE [fallback |-> FALSE,
          p0 |-> (ProbOne * e[1]) \div (e[1] + e[2]),
          p1 |-> (ProbOne * e[2]) \div (e[1] + e[2])]

\* p0 and p1 of ToyNet::forwardSingle(x, y, p0, p1).
forwardSingleProbabilities(N, x, y) ==
    NormalizeSingle(
        ExpTerms(Logits(N, x, y),
                 MaxLogitFrom(NegInfinity, Logits(N, x, y), OutputDim)))

\* field.frag: sum = u_b[j]; for (i < cols) sum += u_W[j * cols + i] * a[i],
\* rows and columns counted from 0.
RECURSIVE ShaderSum(_, _, _, _, _)
ShaderSum(W, j, cols, a, i) ==
    IF i = 0 THEN 0
    ELSE W[(j * cols + (i - 1)) + 1] * a[i] + ShaderSum(W, j, cols, a, i - 1)

\* field.frag: a1[j] = max(sum, 0.0) over u_W1, u_b1 and a0 = vPos.
ShaderA1(U, x, y) ==
    [j \in 1..Hidden1 |->
        Max(U["b1"][j] + ShaderSum(U["W1"], j - 1, InputDim, << x, y >>, InputDim), 0)]

\* field.frag: a2[j] = max(sum, 0.0) over u_W2, u_b2 and a1.
ShaderA2(U, x, y) ==
    [j \in 1..Hidden2 |->
        Max(U["b2"][j] + ShaderSum(U["W2"], j - 1, Hidden1, ShaderA1(U, x, y), Hidden1), 0)]

\* field.frag: logits[k] over u_W3, u_b3 and a2.
ShaderLogits(U, x, y) ==
    [k \in 1..OutputDim |->
        U["b3"][k] + ShaderSum(U["W3"], k - 1, Hidden2, ShaderA2(U, x, y), Hidden2)]

\* The end of field.frag from the exponentials e: expSum <= 0.0 paints the
\* fragment neutral gray and computes no probability; otherwise
\* p1 = probs[1] / expSum drives the colour mix.
ShaderNormalize(e) ==
    IF e[1] + e[2] <= 0
    THEN [fallback |-> TRUE, p1 |-> ProbOne \div 2]
    ELSE [fallback |-> FALSE, p1 |-> (ProbOne * e[2]) \div (e[1] + e[2])]

\* main() of field.frag for the fragment at (x, y); maxLogit starts at -1e30.
fieldFragment(U, x, y) ==
    ShaderNormalize(
        ExpTerms(ShaderLogits(U, x, y),
                 MaxLogitFrom(-E30, ShaderLogits(U, x, y), OutputDim)))

\* The networks probed: the weights of a reset under each init mode with
\* output biases from OutputBiases.
InitInference ==
    /\ variant = "Steps"
    /\ pc = "idle"
    /\ stepTrainRequested = FALSE
    /\ dataset = generateDataset(0, MaxPoints, [size |-> 0, index |-> 0])
    /\ justReset = NoReset
    /\ \E md \in InitModes, c0 \in OutputBiases, c1 \in OutputBiases :
          /\ trainer = [InitTrainer EXCEPT !.initMode = md]
          /\ net = [resetParameters([P |-> ZeroArrays, m |-> ZeroArrays,
                                     v |-> ZeroArrays, adamStep |-> 0,
                                     learningRate |-> 10], md)
                      EXCEPT !.P["b3"] = << c0, c1 >>]
    /\ uniforms = UploadUniforms(net.P)
    /\ fieldDirty = FALSE
    /\ trainCalls = 0
    /\ drawn = << >>
    /\ cfgChanges = 0
    /\ auxWriter = "none"
    /\ call = NoCall

\* What a probe or a shaded fragment leaves alone.
InferenceFrame == << variant, pc, stepTrainRequested, dataset, justReset,
                    trainer, net, uniforms, fieldDirty, trainCalls, drawn,
                    cfgChanges, auxWriter >>

\* net.forwardSingle(x, y, p0, p1): the probe of the control panel.
CallForwardSingleProbabilities ==
    /\ \E x \in ProbeCoords, y \in ProbeCoords :
          call' = [op |-> "forwardSingle", x |-> x, y |-> y,
                   ret |-> forwardSingleProbabilities(net, x, y)]
    /\ UNCHANGED InferenceFrame

\* fieldVis.draw(): the fragment at vPos = (x, y) is shaded from the
\* uniforms.
ShadeFragment ==
    /\ \E x \in ProbeCoords, y \in ProbeCoords :
          call' = [op |-> "fragment", x |-> x, y |-> y,
                   ret |-> fieldFragment(uniforms, x, y)]
    /\ UNCHANGED InferenceFrame

NextInference ==
    \/ CallForwardSingleProbabilities
    \/ ShadeFragment

SpecInference == InitInference /\ [][NextInference]_vars

\* ------------------------------------------------------- auto-training ticks
\* The trainer under the stream of frames, reduced to what auto-training
\* reads and writes: every frame runs the auto-train block once (a tick),
\* and between ticks the user may press Step Train, toggle "Auto Train" and
\* move "Auto Max Steps".  stepAuto is also called directly, whatever the
\* flag, on datasets that may be empty.
MaxAutoMax == 3
MaxAutoSteps == 2

\* Values of the "Auto Max Steps" slider (1 .. 50000) and of
\* nn_set_auto_max_epochs, which clamps at 0.
AutoMaxChoices ==
    IF variant = "Wasm" THEN 0..MaxAutoMax ELSE 1..MaxAutoMax

\* max(1, M - stepCount): the ticks auto-training may still need.
AutoBudget(T) == Max(1, T.autoMaxSteps - T.stepCount)

\* The last call, its result, whether it trained, the trainer it was called
\* on, and the ticks run since the last change from outside against the
\* budget computed at that change.
CalledTick(op, ret, trained, budget, ticks) ==
    [ op |-> op, ret |-> ret, trained |-> trained, trainer |-> trainer,
      net |-> net, budget |-> budget, ticks |-> ticks ]

InitTicks ==
    /\ variant \in {"Steps", "Wasm"}
    /\ pc = "idle"
    /\ stepTrainRequested = FALSE
    /\ \E size \in {0} \cup (MinPoints..MaxPoints) :
          dataset = [size |-> size, index |-> 0]
    /\ justReset = NoReset
    /\ trainer = InitTrainer
    /\ net = resetParameters([P |-> ZeroArrays, m |-> ZeroArrays,
                              v |-> ZeroArrays, adamStep |-> 0,
                              learningRate |-> 10], "HeUniform")
    /\ uniforms = ZeroArrays
    /\ fieldDirty = FALSE
    /\ trainCalls = 0
    /\ drawn = << >>
    /\ cfgChanges = 0
    /\ auxWriter = "none"
    /\ call = CalledTick("Trainer", FALSE, 0, AutoBudget(InitTrainer), 0)

\* What a call on the trainer leaves alone.
TicksFrame == << variant, stepTrainRequested, dataset, justReset,
                uniforms, trainCalls, cfgChanges >>

\* The checkbox "Auto Train" / nn_set_auto_train.
SetAutoTrainTicks ==
    /\ pc = "idle"
    /\ trainer.stepCount < MaxAutoSteps
    /\ LET t == [trainer EXCEPT !.autoTrain = ~trainer.autoTrain]
       IN  /\ trainer' = t
           /\ call' = CalledTick("setAutoTrain", FALSE, 0, AutoBudget(t), 0)
    /\ UNCHANGED << TicksFrame, pc, net, fieldDirty, drawn, auxWriter >>

\* The slider "Auto Max Steps" / nn_set_auto_max_epochs.
SetAutoMaxTicks ==
    /\ pc = "idle"
    /\ \E a \in AutoMaxChoices :
          /\ a # trainer.autoMaxSteps
          /\ LET t == [trainer EXCEPT !.autoMaxSteps = a]
             IN  /\ trainer' = t
                 /\ call' = CalledTick("setAutoMax", FALSE, 0, AutoBudget(t), 0)
    /\ UNCHANGED << TicksFrame, pc, net, fieldDirty, drawn, auxWriter >>

\* if (stepTrainRequested) { stepOnce(dataset); setDirty }, the Step Train
\* button.
StepTrainTicks ==
    /\ pc = "idle"
    /\ trainer.stepCount < MaxAutoSteps
    /\ \E o \in BatchOutcomes :
          LET s == stepOnce(trainer, net, dataset.size, o)
          IN  /\ trainer' = s.t
              /\ net' = s.n
              /\ drawn' = IF s.trained = 1 THEN drawn \o s.t.m_batch ELSE drawn
              /\ auxWriter' = WrittenBy(trainer, auxWriter, s.trained)
              /\ call' = CalledTick("stepOnce", FALSE, s.trained,
                                    AutoBudget(s.t), 0)
    /\ fieldDirty' = TRUE
    /\ UNCHANGED << TicksFrame, pc >>

\* The render loop enters the frame function; nothing was requested.
BeginTick ==
    /\ pc = "idle"
    /\ pc' = "auto"
    /\ UNCHANGED << TicksFrame, trainer, net, fieldDirty, drawn, auxWriter,
                    call >>

\* if (trainer.autoTrain) { if (trainer.stepAuto(dataset)) setDirty }, the
\* auto-train block every frame runs; the frame ends after it.
AutoTick ==
    /\ pc = "auto"
    /\ pc' = "idle"
    /\ IF trainer.autoTrain
       THEN \E o \in BatchOutcomes :
              \E s \in {AutoStep(trainer, net, dataset.size, o)} :
                  /\ trainer' = s.t
                  /\ net' = s.n
                  /\ drawn' = IF s.trained = 1 THEN drawn \o s.t.m_batch
                              ELSE drawn
                  /\ auxWriter' = WrittenBy(trainer, auxWriter, s.trained)
                  /\ fieldDirty' = (fieldDirty \/ s.ret)
                  /\ call' = CalledTick("tick", s.ret, s.trained, call.budget,
                                        call.ticks + 1)
       ELSE UNCHANGED << trainer, net, drawn, auxWriter, fieldDirty, call >>
    /\ UNCHANGED TicksFrame

\* trainer.stepAuto(dataset) called whatever the auto-train flag says.
CallStepAuto ==
    /\ pc = "idle"
    /\ \E o \in BatchOutcomes :
          \E s \in {AutoStep(trainer, net, dataset.size, o)} :
              /\ trainer' = s.t
              /\ net' = s.n
              /\ drawn' = IF s.trained = 1 THEN drawn \o s.t.m_batch ELSE drawn
              /\ auxWriter' = WrittenBy(trainer, auxWriter, s.trained)
              /\ call' = CalledTick("stepAuto", s.ret, s.trained, call.budget,
                                    IF trainer.autoTrain THEN call.ticks + 1
                                    ELSE call.ticks)
    /\ UNCHANGED << TicksFrame, pc, fieldDirty >>

NextTicks ==
    \/ SetAutoTrainTicks
    \/ SetAutoMaxTicks
    \/ StepTrainTicks
    \/ BeginTick
    \/ AutoTick
    \/ CallStepAuto

SpecTicks == InitTicks /\ [][NextTicks]_vars

\* The render loop calls the frame function for ever and the frame function
\* runs to its end, so a frame that can begin does, and its auto-train block
\* is run.
FairSpecTicks == SpecTicks /\ WF_vars(BeginTick) /\ WF_vars(AutoTick)

TypeOK ==
    /\ variant \in Variants
    /\ pc \in {"idle", "step", "auto", "upload", "draw"}
    /\ trainer.stepCount \in 0..MaxSteps
    /\ dataset.size \in MinPoints..MaxPoints

\* ------------------------------------------------------------------- claims
\* The trainer fields resetForNewDataset zeroes.
CleanTrainer(T) ==
    /\ T.stepCount = 0
    /\ T.lastLoss = 0
    /\ T.lastAccuracy = 0
    /\ T.lossHistory = << >>
    /\ T.accuracyHistory = << >>
    /\ T.historyCount = 0
    /\ ~T.autoTrain

\* C1: after resetForNewDataset returns, from whatever trainer state it was
\* called in, the step counter, lastLoss and lastAccuracy are 0, the history
\* is empty with historyCount 0, and auto-train is off.
C1_ResetCompleteness ==
    (justReset.kind # "none" /\ variant # "App") => CleanTrainer(trainer)

\* A reset taken with auto-train on, after training steps had filled the
\* history.
C1_Witness ==
    /\ variant = "Steps"
    /\ justReset.kind # "none"
    /\ justReset.stepCount > 0
    /\ justReset.historyCount > 0
    /\ justReset.autoTrain
    /\ CleanTrainer(trainer)

\* C2: every step that replaces the dataset (the regenerate request of a
\* frame, nn_set_dataset) resets the trainer and the network in the same
\* step and before any training step of that frame, so no training step
\* sees the new dataset with a counter, history, parameters or auto-train
\* flag left from the old one.
C2_RegenerateResets ==
    [][ /\ (dataset' # dataset => justReset'.kind = "dataset")
        /\ (justReset'.kind = "dataset" =>
              /\ CleanTrainer(trainer')
              /\ trainCalls' = 0
              /\ net'.P = InitialParameters(IF variant = "App" THEN "HeUniform"
                                            ELSE trainer'.initMode)) ]_vars

\* A frame that regenerates a trained-on dataset and has a step request
\* pending on the new one.
C2_Witness ==
    /\ justReset.kind = "dataset"
    /\ justReset.stepCount > 0
    /\ pc = "step"
    /\ stepTrainRequested
    /\ trainer.stepCount = 0

\* C3: the sampling cursor is 0 right after every regeneration or
\* replacement of the dataset, so the first batch drawn afterwards starts at
\* dataset index 0.
C3_CursorResetOnDatasetChange ==
    justReset.kind = "dataset" => trainer.m_dataCursor = 0

\* The indices drawn since the last reset are 0, 1, .., n-1, 0, 1, ..
RoundRobin == \A k \in 1..Len(drawn) : drawn[k] = (k - 1) % dataset.size

\* Number of times sample i was drawn since the last reset.
Visits(i) == Cardinality({k \in 1..Len(drawn) : drawn[k] = i})

\* C4: for a fixed dataset of n samples the samples drawn by successive
\* makeBatch calls since the last reset, read across batches, are the
\* indices 0,1,..,n-1,0,1,..; the visit counts of two samples never differ
\* by more than one.
C4_RoundRobin ==
    variant # "App" =>
        /\ RoundRobin
        /\ \A i, j \in 0..(dataset.size - 1) : Visits(i) - Visits(j) <= 1

\* A second batch of more than one sample that starts where the first one
\* ended, after the cursor has wrapped around the dataset.
C4_Witness ==
    /\ variant # "App"
    /\ trainer.stepCount >= 2
    /\ Len(drawn) > dataset.size
    /\ Len(trainer.m_batch) > 1
    /\ trainer.m_batch[1] # 0

\* C5: an auto-train step that ends with the counter at or above the
\* configured maximum, or with lastLoss at or below the target loss, leaves
\* auto-train off; with auto-train off the auto-train block of a frame
\* trains nothing.
C5_AutoStopClearsFlag ==
    [][ pc = "auto" =>
          /\ ((trainer.autoTrain
                 /\ (trainer'.stepCount >= trainer'.autoMaxSteps
                       \/ trainer'.lastLoss <= trainer'.autoTargetLoss))
                => ~trainer'.autoTrain)
          /\ (~trainer.autoTrain => (trainer' = trainer /\ net' = net)) ]_vars

\* An auto-train step that reached the step bound with the loss still above
\* the target, and switched auto-train off.
C5_Witness ==
    /\ pc = "upload"
    /\ ~stepTrainRequested
    /\ trainCalls = 1
    /\ trainer.stepCount >= trainer.autoMaxSteps
    /\ trainer.lastLoss > trainer.autoTargetLoss
    /\ ~trainer.autoTrain

C8_OneStepPerFrame == trainCalls <= 1

\* C8, amended: a frame makes at most one trainBatch call for its step
\* request and at most one for auto-train: never more than two, and at most
\* one in a frame without a step request.
C8_OneStepPerTrigger ==
    /\ trainCalls <= 2
    /\ (~stepTrainRequested => trainCalls <= 1)
    /\ (pc = "auto" => trainCalls <= 1)

\* A frame in which the step request and auto-train both trained.
C8_Witness ==
    /\ pc = "upload"
    /\ stepTrainRequested
    /\ trainCalls = 2

\* C9: when the decision field is drawn, all six uniform arrays hold the
\* network's current parameters: they were uploaded together after the
\* resets and training steps of the frame.
C9_UniformsCurrentAtDraw ==
    (pc = "draw" /\ variant # "App") => uniforms = net.P

\* A frame about to draw after its step request and auto-train both updated
\* the parameters.
C9_Witness ==
    /\ pc = "draw"
    /\ variant = "Steps"
    /\ trainCalls = 2
    /\ uniforms = net.P
    /\ uniforms # InitialParameters(trainer.initMode)

\* C10: right after the network parameters are reinitialized (a dataset
\* regeneration or an init-mode change) every velocity/first-moment array,
\* every second-moment array and the Adam step counter are zero.
C10_AuxStateZeroAfterReinit ==
    justReset.kind # "none" => AuxZero(net)

\* A reinitialization of a network whose optimizer state was not zero.
C10_Witness ==
    /\ justReset.kind # "none"
    /\ justReset.auxDirty
    /\ trainer.optimizerType # "SGD"
    /\ AuxZero(net)

\* A step of the behaviour in which exactly one trainBatch call updated the
\* network.
TrainingStep == trainer'.stepCount = trainer.stepCount + 1

\* The parameters an Adam update at step t produces from the network N under
\* the trainer settings T and the batch outcome o.
AdamParametersAt(T, N, o, t) ==
    AdamUpdate(OptimizerConfig(T), N.P,
               AdamFirstMoment(OptimizerConfig(T), N.m, Gradients(o)),
               AdamSecondMoment(OptimizerConfig(T), N.v, Gradients(o)), t).P

\* C11: with Adam selected, one training step (one trainBatch call, whatever
\* the batch length and the number of parameter arrays) advances the shared
\* step counter by exactly one, and the bias correction of that update uses
\* the new counter value as t; with another optimizer the counter is not
\* advanced.  The counter never exceeds the number of steps since the reset.
C11_AdamCounterOncePerCall ==
    [][ /\ TrainingStep =>
             IF trainer.optimizerType = "Adam"
             THEN /\ net'.adamStep = net.adamStep + 1
                  /\ \E o \in BatchOutcomes :
                        net'.P = AdamParametersAt(trainer, net, o, net.adamStep + 1)
             ELSE net'.adamStep = net.adamStep
        /\ net'.adamStep <= trainer'.stepCount ]_vars

\* Two Adam updates since the last reset, each on a batch of several
\* samples: the counter equals the number of updates.
C11_Witness ==
    /\ trainer.optimizerType = "Adam"
    /\ Len(trainer.m_batch) > 1
    /\ trainer.stepCount = 2
    /\ net.adamStep = 2

\* C12: the velocity an SGD+Momentum update reads was written only by
\* SGD+Momentum updates, and the moments an Adam update reads were written
\* only by Adam updates (or are the zeros of the last reset), whatever kind
\* switches happened since the reset.
C12_AuxStateOwnKind ==
    [][ TrainingStep =>
          /\ trainer.optimizerType = "SGDMomentum" =>
                auxWriter \in {"none", "SGDMomentum"}
          /\ trainer.optimizerType = "Adam" =>
                auxWriter \in {"none", "Adam"} ]_vars

\* The lengths of the twelve optimizer state arrays of a network.
AuxLengths(N) == [k \in ParamNames |-> << Len(N.m[k]), Len(N.v[k]) >>]

\* C13: a step that changes the optimizer kind leaves every velocity /
\* first-moment array, every second-moment array and the Adam step counter
\* as they were, in length and in value.
C13_KindChangeKeepsAuxState ==
    [][ trainer'.optimizerType # trainer.optimizerType =>
          /\ net'.m = net.m
          /\ net'.v = net.v
          /\ net'.adamStep = net.adamStep
          /\ AuxLengths(net') = AuxLengths(net)
          /\ net'.P = net.P ]_vars

\* Adam has just been selected while the arrays hold the velocity that
\* SGD+Momentum updates wrote.
C13_Witness ==
    /\ trainer.optimizerType = "Adam"
    /\ auxWriter = "SGDMomentum"
    /\ ~AuxZero(net)
    /\ net.adamStep = 0

\* The parameters one optimizer update produces from the network N under
\* the trainer settings T and the batch outcome o.
UpdatedParameters(T, N, o) ==
    optimizerApplyUpdate(OptimizerConfig(T), N.P, Gradients(o), N.m, N.v,
                         N.adamStep).P

\* C14: every training step, requested or automatic, updates the parameters
\* with the learning rate, optimizer kind and hyperparameters the trainer
\* holds at the moment the step runs.
C14_StepUsesCurrentSettings ==
    [][ TrainingStep =>
          \E o \in BatchOutcomes :
             /\ trainer'.lastLoss = o.loss
             /\ net'.P = UpdatedParameters(trainer, net, o) ]_vars

\* C15: an SGD+Momentum update with momentum 0 yields the parameters plain
\* SGD yields from the same parameters, gradients and learning rate, at every
\* update of a sequence (whatever velocity earlier updates left behind).
C15_ZeroMomentumIsSGD ==
    [][ (TrainingStep /\ trainer.optimizerType = "SGDMomentum"
                      /\ trainer.momentum = 0) =>
          \E o \in BatchOutcomes :
             /\ trainer'.lastLoss = o.loss
             /\ net'.P = UpdatedParameters(
                            [trainer EXCEPT !.optimizerType = "SGD"], net, o) ]_vars

\* The second SGD+Momentum update of a run, made with momentum 0 over the
\* non-zero velocity the first one stored.
C15_Witness ==
    /\ trainer.optimizerType = "SGDMomentum"
    /\ trainer.momentum = 0
    /\ trainer.stepCount = 2
    /\ auxWriter = "SGDMomentum"
    /\ ~AuxZero(net)

Settled(T) == [T EXCEPT !.m_batch = << >>]

\* C18: stepOnce and makeBatch on an empty dataset change neither the step
\* counter, lastLoss, lastAccuracy, the history, the sampling cursor nor the
\* network, draw no sample and read no dataset element.
C18_EmptyDatasetNoOp ==
    (call.op \in {"stepOnce", "makeBatch"} /\ call.dataCount = 0) =>
        /\ Settled(trainer) = Settled(call.trainer)
        /\ net = call.net
        /\ drawn = call.drawn
        /\ call.batch = << >>
        /\ trainer.m_batch = << >>

\* stepOnce has returned from an empty dataset, after an earlier direct call
\* had trained the network.
C18_Witness ==
    /\ call.op = "stepOnce"
    /\ call.dataCount = 0
    /\ trainer.stepCount = 0
    /\ net.P # InitialParameters(trainer.initMode)

C17_SettingsInRange ==
    /\ trainer.batchSize \in 1..MaxBatch
    /\ trainer.learningRate > 0
    /\ trainer.momentum \in 0..(Den - 1)
    /\ trainer.adamBeta1 \in 0..(Den - 1)
    /\ trainer.adamBeta2 \in 0..(Den - 1)
    /\ trainer.adamEps >= 0
    /\ trainer.autoMaxSteps >= 0
    /\ trainer.autoTargetLoss >= 0
    /\ trainer.optimizerType \in OptimizerTypes
    /\ trainer.initMode \in InitModes
    /\ dataset.size \in MinPoints..MaxPoints
    /\ dataset.index \in 0..(DatasetTypeCount - 1)

\* The hidden widths of a resizable network.
Shape(N) == << N.hidden1, N.hidden2 >>

\* C21: whenever setHiddenSizes changes the hidden widths, every weight and
\* bias holds a freshly initialized value when it returns: the parameters are
\* those resetParameters draws for the new shape, and none is a value left
\* from the old shape.
C21_ResizeReinitializes ==
    (call.op = "setHiddenSizes" /\ Shape(net) # Shape(call.net)) =>
        net.P = InitialParametersSized(net.hidden1, net.hidden2)

\* Every array of the resizable network has the length its declared
\* dimensions give, and every gradient buffer the length of its array.
ShapeOK(N) ==
    \A k \in ParamNames :
        /\ Len(N.P[k]) = SizedLen(k, N.hidden1, N.hidden2)
        /\ Len(N.dP[k]) = Len(N.P[k])

\* C22: after any sequence of construction, setHiddenSizes with arguments
\* inside or outside the bounds, resetParameters and trainBatch calls, W1 has
\* H1*D_in elements, b1 H1, W2 H2*H1, b2 H2, W3 D_out*H2, b3 D_out, every
\* gradient buffer has the length of its parameter array, and the widths lie
\* within [MinHidden, MaxHidden].
C22_ShapeInvariant ==
    /\ ShapeOK(net)
    /\ net.hidden1 \in MinHidden..MaxHidden
    /\ net.hidden2 \in MinHidden..MaxHidden

\* trainBatch has run on a network that setHiddenSizes, called with a width
\* above the maximum, had widened after an earlier training step.
C22_Witness ==
    /\ call.op = "trainBatch"
    /\ Len(call.args) > 0
    /\ trainCalls = 2
    /\ cfgChanges > 0
    /\ Shape(net) = << MaxHidden, MaxHidden >>
    /\ Shape(net) # Shape(ConstructSized)
    /\ ShapeOK(net)

\* C25: a trainBatch call processes at most MaxBatch samples, whatever the
\* length of the batch, and every scratch buffer element it indexes lies
\* inside the buffer's MaxBatch rows.
C25_TrainBatchBounded ==
    call.op = "trainBatch" =>
        /\ call.ret.used <= MaxBatch
        /\ call.ret.used <= Len(call.args)
        /\ \A s \in ScratchNames :
              /\ call.ret.touched[s] < call.net.scratch[s]
              /\ call.net.scratch[s] =
                    MaxBatch * ScratchWidth(s, call.net.hidden1, call.net.hidden2)

\* trainBatch has returned from a batch of more than MaxBatch samples, having
\* processed MaxBatch of them on a network widened by setHiddenSizes.
C25_Witness ==
    /\ call.op = "trainBatch"
    /\ Len(call.args) > MaxBatch
    /\ call.ret.used = MaxBatch
    /\ call.net.hidden1 = MaxHidden
    /\ call.ret.touched["a1"] = MaxBatch * MaxHidden - 1

\* The last n elements of a sequence, in order.
LastN(s, n) == SubSeq(s, Len(s) - n + 1, Len(s))

\* C23: in the bounded-history revision, after k recorded steps since the
\* last reset the history holds exactly the last min(k, HistorySize) (loss,
\* accuracy) pairs, oldest first; historyCount is min(k, HistorySize) and
\* never exceeds HistorySize.  Recording into a full history drops the oldest
\* pair and keeps the order of the others.
C23_BoundedHistoryKeepsLatest ==
    /\ trainer.historyCount = Min(Len(call.recorded), HistorySize)
    /\ trainer.historyCount <= HistorySize
    /\ \A i \in 1..trainer.historyCount :
          << trainer.lossHistory[i], trainer.accuracyHistory[i] >> =
              LastN(call.recorded, trainer.historyCount)[i]
    /\ Len(trainer.lossHistory) = HistorySize
    /\ Len(trainer.accuracyHistory) = HistorySize

\* The history has overflowed twice, and distinct pairs are in it: the
\* oldest kept pair differs from the newest.
C23_Witness ==
    /\ Len(call.recorded) >= HistorySize + 2
    /\ trainer.historyCount = HistorySize
    /\ trainer.lossHistory[1] # trainer.lossHistory[HistorySize]
    /\ call.recorded[1] # call.recorded[Len(call.recorded)]

\* The history of the unbounded revisions matches the counter: historyCount
\* and the lengths of both histories equal the step/epoch counter.
HistoryMatchesCounter(T) ==
    /\ T.historyCount = T.stepCount
    /\ Len(T.lossHistory) = T.stepCount
    /\ Len(T.accuracyHistory) = T.stepCount

\* C24: in the revisions with an unbounded history, a step that draws a
\* batch (stepOnce / trainOneEpoch on a non-empty dataset) adds exactly one
\* to the step/epoch counter and appends exactly one entry, (lastLoss,
\* lastAccuracy), to the histories; a step that is no reset never lowers the
\* counter; and historyCount, the loss-history length and the
\* accuracy-history length always equal the counter.
C24_StepCountsAndRecordsOnce ==
    /\ [](variant # "App" => HistoryMatchesCounter(trainer))
    /\ [][ variant # "App" =>
             /\ Len(drawn') > Len(drawn) =>
                   /\ trainer'.stepCount = trainer.stepCount + 1
                   /\ trainer'.lossHistory =
                         Append(trainer.lossHistory, trainer'.lastLoss)
                   /\ trainer'.accuracyHistory =
                         Append(trainer.accuracyHistory, trainer'.lastAccuracy)
             /\ justReset'.kind = "none" =>
                   trainer'.stepCount \in
                       {trainer.stepCount, trainer.stepCount + 1} ]_vars

\* Two steps recorded since the last reset, with different outcomes.
C24_Witness ==
    /\ variant # "App"
    /\ trainer.stepCount = 2
    /\ Len(trainer.lossHistory) = 2
    /\ trainer.lossHistory[1] # trainer.lossHistory[2]
    /\ Len(trainer.accuracyHistory) = 2

C28_CursorInBounds ==
    \A k \in 1..Len(drawn) : 0 <= drawn[k] /\ drawn[k] < dataset.size

AutoTraining ==
    trainer.autoTrain /\ dataset.size > 0 /\ trainer.autoMaxSteps > 0

\* C29: with auto-train set, a non-empty dataset, a positive max-step bound
\* M and no change from outside, auto-training stops: the flag is still set
\* only while fewer than max(1, M - stepCount) ticks have run since the last
\* change from outside, it is eventually cleared, and once it is clear a
\* call of stepAuto trains nothing.
C29_AutoTrainStops ==
    /\ [](AutoTraining => call.ticks < call.budget)
    /\ (AutoTraining ~> ~trainer.autoTrain)
    /\ [][ (~trainer.autoTrain /\ call'.op \in {"stepAuto", "tick"})
              => (trainer' = trainer /\ net' = net) ]_vars

\* Auto-training has just stopped at its step bound, on the last tick of a
\* budget of more than one tick.
C29_Witness ==
    /\ call.op = "tick" /\ call.trainer.autoTrain /\ ~trainer.autoTrain
    /\ dataset.size > 0
    /\ call.budget > 1 /\ call.ticks = call.budget
    /\ trainer.stepCount = trainer.autoMaxSteps
    /\ trainer.lastLoss > trainer.autoTargetLoss

====
